---- MODULE Spec2Model ----
(***************************************************************************)
(* A model of the process / scheduling core of the kernel:                 *)
(*   src/src/kernel/process/process.c     process table and lifecycle      *)
(*   src/src/kernel/process/scheduler.c   classic single-core scheduler    *)
(*   src/src/kernel/smp/advanced_scheduler.c   per-core run queues         *)
(*   src/src/kernel/interrupts/irq.c      the timer interrupt              *)
(*   src/src/kernel/smp/smp.c             core detection and bring-up      *)
(* Process control blocks live at heap addresses 1..HeapSlots; a pointer   *)
(* is an address, NULL is 0.  Every C function is an operator from kernel  *)
(* state to kernel state (a record holding every global and every PCB), so *)
(* that a function calling another is the composition of the operators.    *)
(***************************************************************************)
EXTENDS Integers, Sequences, FiniteSets, TLC

\* ------------------------------------------------------------------ bounds
\* The process table has MAX_PROCESSES slots (256 in process.h:176); the
\* model keeps the code's arithmetic and scales the table down.
MAX_PROCESSES == 4
\* Timer interrupts taken in one behaviour.
MaxTicks == 20
\* Timer interrupts taken where processes also block and are terminated.
MaxEarlyTicks == 2
\* sched_schedule_next is called while the context switches counted for
\* all processes together are fewer than this.
MaxSwitches == 2
\* Units of runtime accounted to one process, and the deadlines given.
MaxRuntime == 2
MaxDeadline == 2
\* process_create calls that reach registration in one behaviour.
MaxCreates == 4
\* Processes alive at once where the whole scheduler is explored.
MaxLive == 3
\* sched_add_process_to_runqueue is called on a run queue while its
\* process_count is below this.
MaxQueued == 2
\* The cores whose run queues the scheduling specifications call the
\* per-core operations on.
NCpu == 2
\* MAX_CPUS, the length of neural_matrix and of neural_runqueues (64 in
\* smp.c:49 and advanced_scheduler.c:61); scaled down, above the number of
\* cores detect_neural_cores finds.
MAX_CPUS == 5
\* detect_neural_cores enumerates the boot core and the cores below 4.
DETECTED_CORES == 4
\* The number of values of a uint32_t (2^32 in the code: sleep_until,
\* process.h:85, is assigned a uint64_t and keeps its low 32 bits).  The model
\* keeps the truncation and scales the width down.
UINT32_MOD == 16
\* UINT64_MAX, the start value of the scans for a minimum: above every
\* virtual runtime and deadline the model reaches.
UINT64_MAX == 1048575
\* Arithmetic on uint64_t wraps at UINT64_MAX + 1.
UINT64_MOD == UINT64_MAX + 1
\* The largest payload of a message (256 bytes in ipc.c:19); the model keeps
\* the size check and the copy loops and scales the array down.
MAX_MESSAGE_SIZE == 2
\* ipc_send_message calls that succeed in one behaviour; the message heap
\* has one block for each.
MaxSends == 2

\* ------------------------------------------------------- program constants
DEFAULT_TIME_SLICE == 10
TICK_MS == 10

NULL == 0
HeapSlots == MAX_PROCESSES
Procs == 1..HeapSlots
Ptr == Procs \cup {NULL}
Pids == 0..(MAX_PROCESSES - 1)
Cpus == 0..(NCpu - 1)
CpuIds == 0..(MAX_CPUS - 1)
Msgs == 1..MaxSends

\* process_state_t
PROCESS_CREATED == "CREATED"
PROCESS_READY == "READY"
PROCESS_RUNNING == "RUNNING"
PROCESS_BLOCKED == "BLOCKED"
PROCESS_SLEEPING == "SLEEPING"
PROCESS_ZOMBIE == "ZOMBIE"

\* process_priority_t
PRIORITY_IDLE == 0
PRIORITY_LOW == 1
PRIORITY_NORMAL == 2
PRIORITY_HIGH == 3
PRIORITY_REALTIME == 4
PrioLevels == 0..4
Buckets == 0..5

\* scheduler_algorithm_t
SCHED_ROUND_ROBIN == "RR"
SCHED_PRIORITY == "PRIORITY"
SCHED_CFS == "CFS"
Algorithms == {SCHED_ROUND_ROBIN, SCHED_PRIORITY, SCHED_CFS}

\* scheduling_algorithm_t (advanced_scheduler.h)
SCHED_ALGORITHM_ROUND_ROBIN == "ADV_RR"
SCHED_ALGORITHM_CFS == "ADV_CFS"
SCHED_ALGORITHM_REALTIME == "ADV_REALTIME"
SCHED_ALGORITHM_NEURAL == "ADV_NEURAL"
SCHED_ALGORITHM_CYBERPUNK == "ADV_CYBERPUNK"
\* CPU status codes (smp.c)
CPU_STATUS_OFFLINE == "OFFLINE"
CPU_STATUS_INITIALIZING == "INITIALIZING"
CPU_STATUS_ONLINE == "ONLINE"
CPU_STATUS_ERROR == "ERROR"
CPU_STATUS_NEURAL_SYNC == "NEURAL_SYNC"
\* neural_priority_t
NEURAL_PRIORITY_NORMAL == 2

AdvAlgorithms ==
    {SCHED_ALGORITHM_ROUND_ROBIN, SCHED_ALGORITHM_CFS,
     SCHED_ALGORITHM_REALTIME, SCHED_ALGORITHM_NEURAL,
     SCHED_ALGORITHM_CYBERPUNK}

\* Inputs the operations are called with.
CreatePriorities == {PRIORITY_NORMAL}
SleepMs == {20, 50}
BootTicks == {0, UINT32_MOD - (50 \div TICK_MS)}
AllocFailures == {"none", "pcb", "aspace", "stack", "heap"}

VARIABLES
    \* process.c
    current_process, idle_process, next_pid, active_process_count,
    total_processes, process_table,
    \* heap.c: the PCB blocks that are allocated, and the PCBs' memory
    heap, pcb,
    \* scheduler.c
    current_algorithm, ready_queue_head, ready_queue_tail, running_process,
    last_schedule_time, time_slice_counter, priority_queues,
    \* irq.c, and the interrupt flag of the core that runs the classic
    \* scheduler
    timer_ticks, interrupts_on,
    \* advanced_scheduler.c
    neural_runqueues, global_algorithm,
    \* smp.c
    neural_matrix, neural_cpu_count, active_neural_cores, smp_initialized,
    \* ipc.c: the message blocks and the mailbox blocks that are allocated,
    \* their memory, and the buffer the last ipc_receive_message filled
    msg_heap, msg, mq_heap, mq, buffer,
    \* per core, the position and the local variables of a call that is
    \* executed statement by statement
    inflight,
    \* the last call: its name and arguments, its return value, whether it
    \* returned at all, the resources it acquired and released in order, the
    \* context_switch calls it made, the processes its sleeper scan enqueued
    op, ret, hung, log, switches, woken,
    \* observers: the PIDs whose process was destroyed so far, and the
    \* recorded calls so far with what they were given and returned
    reaped, history

vars == <<current_process, idle_process, next_pid, active_process_count,
          total_processes, process_table, heap, pcb, current_algorithm,
          ready_queue_head, ready_queue_tail, running_process,
          last_schedule_time, time_slice_counter, priority_queues,
          timer_ticks, interrupts_on, inflight, neural_runqueues,
          global_algorithm, neural_matrix,
          neural_cpu_count, active_neural_cores, smp_initialized, msg_heap, msg,
          mq_heap, mq, buffer, op, ret, hung, log, switches, woken,
          reaped, history>>

\* struct process_sched_stats: the block a PCB's sched_stats points to.
ZeroStats ==
    [runtime |-> 0, context_switches |-> 0, last_runtime |-> 0,
     vruntime |-> 0, neural_class |-> 0,
     nice_value |-> 0, deadline |-> 0]

\* struct ipc_message and struct message_queue
ZeroMsg == [sender_pid |-> 0, size |-> 0, data |-> <<>>, next |-> NULL]
ZeroQueue == [head |-> NULL, tail |-> NULL, count |-> 0]

\* struct process after memory_set(proc, 0, sizeof(struct process))
ZeroPCB ==
    [pid |-> 0, ppid |-> 0, state |-> PROCESS_CREATED, priority |-> 0,
     time_slice |-> 0, cpu_time |-> 0, page_directory |-> 0,
     stack_base |-> 0, heap_base |-> 0, parent |-> NULL, next |-> NULL,
     prev |-> NULL, sleep_until |-> 0, next_in_queue |-> NULL,
     message_queue |-> NULL, sched_stats |-> NULL, stats |-> ZeroStats,
     name |-> ""]

\* struct neural_cpu and struct neural_runqueue in the zero-initialised
\* static arrays
ZeroCpu == [status |-> CPU_STATUS_OFFLINE, online |-> 0]
ZeroRunqueue ==
    [active_queue |-> [b \in Buckets |-> NULL], queue_bitmap |-> {},
     process_count |-> 0, current |-> NULL, idle_task |-> NULL,
     clock |-> 0, algorithm |-> SCHED_ALGORITHM_ROUND_ROBIN]

\* The kernel state as one value.
Kern ==
    [current_process |-> current_process, idle_process |-> idle_process,
     next_pid |-> next_pid, active_process_count |-> active_process_count,
     total_processes |-> total_processes, process_table |-> process_table,
     heap |-> heap, pcb |-> pcb, current_algorithm |-> current_algorithm,
     ready_queue_head |-> ready_queue_head,
     ready_queue_tail |-> ready_queue_tail,
     running_process |-> running_process,
     last_schedule_time |-> last_schedule_time,
     time_slice_counter |-> time_slice_counter,
     priority_queues |-> priority_queues, timer_ticks |-> timer_ticks,
     interrupts_on |-> interrupts_on, inflight |-> inflight,
     neural_runqueues |-> neural_runqueues,
     global_algorithm |-> global_algorithm, neural_matrix |-> neural_matrix,
     neural_cpu_count |-> neural_cpu_count,
     active_neural_cores |-> active_neural_cores,
     smp_initialized |-> smp_initialized, msg_heap |-> msg_heap,
     msg |-> msg, mq_heap |-> mq_heap, mq |-> mq, buffer |-> buffer,
     ret |-> NULL, hung |-> FALSE, log |-> <<>>, switches |-> <<>>,
     woken |-> {}]

\* The state a call leaves: every variable takes the value the call computed
\* (R is the call's result, computed once).
Commit(K, call) ==
    \E R \in {K} :
        /\ current_process' = R.current_process
        /\ idle_process' = R.idle_process
        /\ next_pid' = R.next_pid
        /\ active_process_count' = R.active_process_count
        /\ total_processes' = R.total_processes
        /\ process_table' = R.process_table
        /\ heap' = R.heap
        /\ pcb' = R.pcb
        /\ current_algorithm' = R.current_algorithm
        /\ ready_queue_head' = R.ready_queue_head
        /\ ready_queue_tail' = R.ready_queue_tail
        /\ running_process' = R.running_process
        /\ last_schedule_time' = R.last_schedule_time
        /\ time_slice_counter' = R.time_slice_counter
        /\ priority_queues' = R.priority_queues
        /\ timer_ticks' = R.timer_ticks
        /\ interrupts_on' = R.interrupts_on
        /\ inflight' = R.inflight
        /\ neural_runqueues' = R.neural_runqueues
        /\ global_algorithm' = R.global_algorithm
        /\ neural_matrix' = R.neural_matrix
        /\ neural_cpu_count' = R.neural_cpu_count
        /\ active_neural_cores' = R.active_neural_cores
        /\ smp_initialized' = R.smp_initialized
        /\ msg_heap' = R.msg_heap
        /\ msg' = R.msg
        /\ mq_heap' = R.mq_heap
        /\ mq' = R.mq
        /\ buffer' = R.buffer
        /\ op' = call
        /\ ret' = R.ret
        /\ hung' = R.hung
        /\ log' = R.log
        /\ switches' = R.switches
        /\ woken' = R.woken

\* A core that executes no call statement by statement.
NoCall == [pc |-> "none"]

\* The state before any initialisation: the statics' initialisers.
BootKern ==
    [current_process |-> NULL, idle_process |-> NULL, next_pid |-> 1,
     active_process_count |-> 0, total_processes |-> 0,
     process_table |-> [i \in Pids |-> NULL],
     heap |-> {}, pcb |-> [p \in Procs |-> ZeroPCB],
     current_algorithm |-> SCHED_ROUND_ROBIN,
     ready_queue_head |-> NULL, ready_queue_tail |-> NULL,
     running_process |-> NULL, last_schedule_time |-> 0,
     time_slice_counter |-> 0,
     priority_queues |-> [i \in PrioLevels |-> NULL], timer_ticks |-> 0,
     interrupts_on |-> FALSE, inflight |-> [c \in Cpus |-> NoCall],
     neural_runqueues |-> [c \in CpuIds |-> ZeroRunqueue],
     global_algorithm |-> SCHED_ALGORITHM_NEURAL,
     neural_matrix |-> [c \in CpuIds |-> ZeroCpu], neural_cpu_count |-> 0,
     active_neural_cores |-> 0, smp_initialized |-> 0,
     msg_heap |-> {}, msg |-> [m \in Msgs |-> ZeroMsg],
     mq_heap |-> {}, mq |-> [q \in Procs |-> ZeroQueue], buffer |-> <<>>,
     ret |-> NULL, hung |-> FALSE, log |-> <<>>, switches |-> <<>>,
     woken |-> {}]

Min(S) == CHOOSE x \in S : \A y \in S : x <= y

\* ------------------------------------------------------------- heap.c
\* kmalloc: first fit, the lowest free block; NULL when none is free.
kmalloc(K) == IF Procs \ K.heap = {} THEN NULL ELSE Min(Procs \ K.heap)

\* kfree: the block is marked free, its bytes stay as they were.
kfree(K, p) == [K EXCEPT !.heap = @ \ {p}, !.log = Append(@, <<"release", "pcb">>)]

\* ---------------------------------------------------------- process.c
\* The probe loop of process_get_next_pid, `fuel` iterations of it.  The
\* loop's state is (pid, next_pid) and the table does not change under it,
\* so a loop that has not left after MAX_PROCESSES iterations never does.
RECURSIVE pid_probe(_, _, _, _)
pid_probe(table, pid, npid, fuel) ==
    IF ~(table[pid] # NULL /\ pid < MAX_PROCESSES)
    THEN [pid |-> pid, next_pid |-> npid, returns |-> TRUE]
    ELSE IF fuel = 0
    THEN [pid |-> pid, next_pid |-> npid, returns |-> FALSE]
    ELSE pid_probe(table, npid,
                   IF npid + 1 >= MAX_PROCESSES THEN 1 ELSE npid + 1,
                   fuel - 1)

\* process_get_next_pid without the loop that skips PIDs in use.
process_get_next_pid_unprobed(K) ==
    [pid |-> K.next_pid,
     next_pid |-> IF K.next_pid + 1 >= MAX_PROCESSES THEN 1 ELSE K.next_pid + 1,
     returns |-> TRUE]

process_get_next_pid(K) ==
    pid_probe(K.process_table, K.next_pid,
              IF K.next_pid + 1 >= MAX_PROCESSES THEN 1 ELSE K.next_pid + 1,
              MAX_PROCESSES)

\* The calls into the memory subsystem, as the events of the call log: what
\* process.c asks to be released, in the order it asks.  (vmm_free itself is
\* a stub that reports the request.)
vmm_free(K, what) == [K EXCEPT !.log = Append(@, <<"release", what>>)]
paging_destroy_address_space(K) ==
    [K EXCEPT !.log = Append(@, <<"release", "aspace">>)]

\* process_create's three error paths, each ending in return NULL.
rollback_aspace_failure(K, proc) == [kfree(K, proc) EXCEPT !.ret = NULL]

rollback_stack_failure(K, proc) ==
    [kfree(paging_destroy_address_space(K), proc) EXCEPT !.ret = NULL]

\* The heap-failure path without the vmm_free of the stack.
rollback_heap_failure_keeps_stack(K, proc) ==
    [kfree(paging_destroy_address_space(K), proc) EXCEPT !.ret = NULL]

rollback_heap_failure(K, proc) ==
    [kfree(paging_destroy_address_space(vmm_free(K, "stack")), proc)
       EXCEPT !.ret = NULL]

\* process_create(name, entry_point, priority).  `fail` is the allocation
\* the memory subsystem refuses in this call, if any.
process_create(K, name, priority, fail) ==
    LET proc == IF fail = "pcb" THEN NULL ELSE kmalloc(K) IN
    IF proc = NULL THEN [K EXCEPT !.ret = NULL]
    ELSE
    LET K1 == [K EXCEPT !.heap = @ \cup {proc}, !.pcb[proc] = ZeroPCB,
                        !.log = Append(@, <<"acquire", "pcb">>)]
        pr == process_get_next_pid(K1)
    IN
    IF ~pr.returns
    THEN [K1 EXCEPT !.next_pid = pr.next_pid, !.hung = TRUE]
    ELSE
    LET K2 == [K1 EXCEPT !.next_pid = pr.next_pid, !.pcb[proc].pid = pr.pid]
    IN
    IF pr.pid >= MAX_PROCESSES THEN [kfree(K2, proc) EXCEPT !.ret = NULL]
    ELSE
    LET K3 == [K2 EXCEPT
                 !.pcb[proc].name = name,
                 !.pcb[proc].state = PROCESS_CREATED,
                 !.pcb[proc].priority = priority,
                 !.pcb[proc].time_slice = DEFAULT_TIME_SLICE,
                 !.pcb[proc].parent = K.current_process,
                 !.pcb[proc].ppid = IF K.current_process # NULL
                                    THEN K.pcb[K.current_process].pid ELSE 0]
    IN
    IF fail = "aspace" THEN rollback_aspace_failure(K3, proc)
    ELSE
    LET K4 == [K3 EXCEPT !.pcb[proc].page_directory = 1,
                         !.log = Append(@, <<"acquire", "aspace">>)]
    IN
    IF fail = "stack" THEN rollback_stack_failure(K4, proc)
    ELSE
    LET K5 == [K4 EXCEPT !.pcb[proc].stack_base = 1,
                         !.log = Append(@, <<"acquire", "stack">>)]
    IN
    IF fail = "heap" THEN rollback_heap_failure(K5, proc)
    ELSE
    [K5 EXCEPT !.pcb[proc].heap_base = 1,
               !.log = Append(@, <<"acquire", "heap">>),
               !.process_table[pr.pid] = proc,
               !.active_process_count = @ + 1,
               !.total_processes = @ + 1,
               !.pcb[proc].state = PROCESS_READY,
               !.ret = proc]

\* process_init: the idle process is created and made current.
process_init(K) ==
    LET K1 == process_create(K, "idle", PRIORITY_IDLE, "none") IN
    IF K1.ret = NULL THEN K1
    ELSE [K1 EXCEPT !.idle_process = K1.ret, !.current_process = K1.ret]

\* process_destroy(proc), proc not NULL.
process_destroy(K, proc) ==
    LET K1 == IF K.pcb[proc].stack_base # 0 THEN vmm_free(K, "stack") ELSE K
        K2 == IF K.pcb[proc].heap_base # 0 THEN vmm_free(K1, "heap") ELSE K1
        K3 == IF K.pcb[proc].page_directory # 0
              THEN paging_destroy_address_space(K2) ELSE K2
        K4 == IF K.pcb[proc].pid < MAX_PROCESSES
              THEN [K3 EXCEPT !.process_table[K.pcb[proc].pid] = NULL] ELSE K3
    IN kfree([K4 EXCEPT !.active_process_count = @ - 1], proc)

\* process_get_current
process_get_current(K) == K.current_process


\* process_wake(proc)
process_wake(K, proc) ==
    IF proc = NULL \/ K.pcb[proc].state # PROCESS_SLEEPING THEN K
    ELSE [K EXCEPT !.pcb[proc].state = PROCESS_READY,
                   !.pcb[proc].sleep_until = 0]

\* -------------------------------------------------------- scheduler.c
\* A loop over a linked list that has not ended after more steps than there
\* are PCBs is walking a cycle, and never ends.
WalkFuel == HeapSlots + 1

\* interrupts_disable() and interrupts_enable(): the interrupt flag of the
\* core is cleared, and set whatever it was before.
interrupts_disable(K) == [K EXCEPT !.interrupts_on = FALSE]
interrupts_enable(K) == [K EXCEPT !.interrupts_on = TRUE]

\* A write to the ready list, a priority list or a process's queue links by
\* the function `who`: the log keeps it when interrupts are enabled.
queue_write(K, who) ==
    IF K.interrupts_on THEN [K EXCEPT !.log = Append(@, <<"unprotected", who>>)]
    ELSE K

\* scheduler_init
scheduler_init(K) ==
    [queue_write(K, "scheduler_init")
        EXCEPT !.ready_queue_head = NULL, !.ready_queue_tail = NULL,
               !.running_process = NULL,
               !.priority_queues = [i \in PrioLevels |-> NULL],
               !.last_schedule_time = K.timer_ticks,
               !.time_slice_counter = 0]

\* The round-robin insert done at the head of the list instead of the tail.
add_round_robin_at_head(K, proc) ==
    LET head == K.ready_queue_head
        K1 == [K EXCEPT !.pcb[proc].prev = NULL]
        K2 == [K1 EXCEPT !.pcb[proc].next = head]
        K3 == IF head # NULL THEN [K2 EXCEPT !.pcb[head].prev = proc]
              ELSE [K2 EXCEPT !.ready_queue_tail = proc]
    IN [K3 EXCEPT !.ready_queue_head = proc]

\* scheduler_add_process, case SCHED_ROUND_ROBIN: append at the tail.
add_round_robin(K, proc) ==
    LET tail == K.ready_queue_tail
        K1 == [K EXCEPT !.pcb[proc].next = NULL]
        K2 == [K1 EXCEPT !.pcb[proc].prev = tail]
        K3 == IF tail # NULL THEN [K2 EXCEPT !.pcb[tail].next = proc]
              ELSE [K2 EXCEPT !.ready_queue_head = proc]
    IN [K3 EXCEPT !.ready_queue_tail = proc]

\* scheduler_add_process, case SCHED_PRIORITY: push on the priority's list.
add_priority(K, proc) ==
    LET prio == K.pcb[proc].priority IN
    IF prio < 5
    THEN [K EXCEPT !.pcb[proc].next = K.priority_queues[prio],
                   !.priority_queues[prio] = proc]
    ELSE K

\* The scan of the sorted insert: the node after which proc goes, or NULL
\* when the scan does not end.
RECURSIVE cfs_scan(_, _, _, _)
cfs_scan(K, current, proc, fuel) ==
    IF ~(K.pcb[current].next # NULL
         /\ K.pcb[K.pcb[current].next].cpu_time < K.pcb[proc].cpu_time)
    THEN current
    ELSE IF fuel = 0 THEN NULL
    ELSE cfs_scan(K, K.pcb[current].next, proc, fuel - 1)

\* scheduler_add_process, case SCHED_CFS: insert sorted by cpu_time.
add_cfs(K, proc) ==
    LET head == K.ready_queue_head IN
    IF head = NULL \/ K.pcb[proc].cpu_time <= K.pcb[head].cpu_time
    THEN LET K1 == [K EXCEPT !.pcb[proc].next = head]
             K2 == IF head # NULL THEN [K1 EXCEPT !.pcb[head].prev = proc]
                   ELSE K1
             K3 == [K2 EXCEPT !.ready_queue_head = proc]
             K4 == [K3 EXCEPT !.pcb[proc].prev = NULL]
         IN IF K4.ready_queue_tail = NULL
            THEN [K4 EXCEPT !.ready_queue_tail = proc] ELSE K4
    ELSE LET current == cfs_scan(K, head, proc, WalkFuel) IN
         IF current = NULL THEN [K EXCEPT !.hung = TRUE]
         ELSE
         LET K1 == [K EXCEPT !.pcb[proc].next = K.pcb[current].next]
             K2 == [K1 EXCEPT !.pcb[proc].prev = current]
             cn == K2.pcb[current].next
             K3 == IF cn # NULL THEN [K2 EXCEPT !.pcb[cn].prev = proc]
                   ELSE [K2 EXCEPT !.ready_queue_tail = proc]
         IN [K3 EXCEPT !.pcb[current].next = proc]

\* scheduler_add_process(proc): the list is changed between
\* interrupts_disable() and interrupts_enable().
scheduler_add_process(K0, proc) ==
    IF proc = NULL \/ K0.pcb[proc].state # PROCESS_READY THEN K0
    ELSE
    CHOOSE R \in
      {IF K1.hung THEN K1 ELSE interrupts_enable(K1) :
         K1 \in
           {CASE K.current_algorithm = SCHED_ROUND_ROBIN ->
                   add_round_robin(K, proc)
              [] K.current_algorithm = SCHED_PRIORITY -> add_priority(K, proc)
              [] K.current_algorithm = SCHED_CFS -> add_cfs(K, proc) :
              K \in {queue_write(interrupts_disable(K0),
                                 "scheduler_add_process")}}} : TRUE

\* scheduler_remove_process, cases SCHED_ROUND_ROBIN and SCHED_CFS: unlink.
unlink_ready(K, proc) ==
    LET pv == K.pcb[proc].prev
        K1 == IF pv # NULL THEN [K EXCEPT !.pcb[pv].next = K.pcb[proc].next]
              ELSE [K EXCEPT !.ready_queue_head = K.pcb[proc].next]
        nx == K1.pcb[proc].next
    IN IF nx # NULL THEN [K1 EXCEPT !.pcb[nx].prev = K1.pcb[proc].prev]
       ELSE [K1 EXCEPT !.ready_queue_tail = K1.pcb[proc].prev]

\* The search of a priority list for proc: <<prev, current>> where the loop
\* stops (current is proc or NULL), or <<NULL, NULL, "hung">> when it does not.
RECURSIVE prio_find(_, _, _, _, _)
prio_find(K, prev, current, proc, fuel) ==
    IF ~(current # NULL /\ current # proc) THEN <<prev, current, "found">>
    ELSE IF fuel = 0 THEN <<NULL, NULL, "hung">>
    ELSE prio_find(K, current, K.pcb[current].next, proc, fuel - 1)

\* scheduler_remove_process, case SCHED_PRIORITY.
unlink_priority(K, proc) ==
    LET prio == K.pcb[proc].priority IN
    IF ~(prio < 5) THEN K
    ELSE
    LET f == prio_find(K, NULL, K.priority_queues[prio], proc, WalkFuel) IN
    IF f[3] = "hung" THEN [K EXCEPT !.hung = TRUE]
    ELSE IF f[2] = NULL THEN K
    ELSE IF f[1] # NULL THEN [K EXCEPT !.pcb[f[1]].next = K.pcb[f[2]].next]
    ELSE [K EXCEPT !.priority_queues[prio] = K.pcb[f[2]].next]

\* scheduler_remove_process(proc): the list is changed between
\* interrupts_disable() and interrupts_enable().
scheduler_remove_process(K0, proc) ==
    IF proc = NULL THEN K0
    ELSE
    CHOOSE R \in
      {IF K1.hung THEN K1
       ELSE interrupts_enable(
                [K1 EXCEPT !.pcb[proc].next = NULL, !.pcb[proc].prev = NULL]) :
         K1 \in
           {IF K.current_algorithm = SCHED_PRIORITY
            THEN unlink_priority(K, proc) ELSE unlink_ready(K, proc) :
              K \in {queue_write(interrupts_disable(K0),
                                 "scheduler_remove_process")}}} : TRUE

\* The scan of scheduler_next in priority mode: the highest non-empty list.
HighestQueued(K) ==
    LET S == {i \in PrioLevels : K.priority_queues[i] # NULL}
    IN IF S = {} THEN -1 ELSE CHOOSE i \in S : \A j \in S : j <= i

\* scheduler_next, case SCHED_PRIORITY, from the assignment of the head of
\* list i to `next` on: the list is changed without interrupts_disable().
priority_take(K0, i, next) ==
    LET K == queue_write(K0, "scheduler_next")
        K1 == [K EXCEPT !.priority_queues[i] = K.pcb[next].next]
    IN [K1 EXCEPT !.pcb[next].next = NULL, !.ret = next]

\* scheduler_next(): the process is returned in ret.
scheduler_next(K) ==
    IF K.current_algorithm = SCHED_PRIORITY
    THEN LET i == HighestQueued(K) IN
         IF i = -1 THEN [K EXCEPT !.ret = NULL]
         ELSE priority_take(K, i, K.priority_queues[i])
    ELSE LET next == K.ready_queue_head IN
         IF next = NULL THEN [K EXCEPT !.ret = NULL]
         ELSE [scheduler_remove_process(K, next) EXCEPT !.ret = next]

\* context_switch(from, to): context_switch_asm loads to's context, so that
\* the process that executes from here on is `to`.  The statements the
\* callers have after the switch (scheduler_tick's last_schedule_time) are
\* taken with the call.
context_switch(K, from, to) ==
    IF to = NULL THEN K
    ELSE
    LET K1 == IF from # NULL /\ K.pcb[from].state = PROCESS_RUNNING
              THEN [K EXCEPT !.pcb[from].state = PROCESS_READY] ELSE K
    IN [K1 EXCEPT !.pcb[to].state = PROCESS_RUNNING,
                  !.running_process = to,
                  !.switches = Append(@, <<from, to>>)]

\* scheduler_yield(): its serial line "Process yielding neural processing"
\* is kept in the log.
scheduler_yield(K) ==
    LET current == process_get_current(K) IN
    IF current = NULL THEN K
    ELSE
    LET K0 == [K EXCEPT !.log = Append(@, <<"serial", "yielding">>)]
        K1 == IF K0.pcb[current].state = PROCESS_RUNNING
              THEN scheduler_add_process(
                       [K0 EXCEPT !.pcb[current].state = PROCESS_READY], current)
              ELSE K0
    IN
    IF K1.hung THEN K1
    ELSE
    LET K2 == scheduler_next(K1) IN
    IF K2.hung \/ K2.ret = NULL THEN K2
    ELSE context_switch(K2, current, K2.ret)

\* scheduler_preempt() with the slice test made strict: the process is
\* preempted one tick late.
scheduler_preempt_late(K) ==
    LET current == process_get_current(K) IN
    IF current = NULL THEN K
    ELSE
    LET K1 == [K EXCEPT !.time_slice_counter = (@ + 1) % UINT32_MOD] IN
    IF K1.time_slice_counter > K1.pcb[current].time_slice
    THEN scheduler_yield([K1 EXCEPT !.time_slice_counter = 0])
    ELSE K1

\* scheduler_preempt()
scheduler_preempt(K) ==
    LET current == process_get_current(K) IN
    IF current = NULL THEN K
    ELSE
    LET K1 == [K EXCEPT !.time_slice_counter = (@ + 1) % UINT32_MOD] IN
    IF K1.time_slice_counter >= K1.pcb[current].time_slice
    THEN scheduler_yield([K1 EXCEPT !.time_slice_counter = 0])
    ELSE K1

\* The sleeper scan of scheduler_tick, from table slot i on.
RECURSIVE wake_sleepers(_, _, _)
wake_sleepers(K, i, current_time) ==
    IF i >= MAX_PROCESSES \/ K.hung THEN K
    ELSE
    LET proc == K.process_table[i] IN
    IF proc # NULL /\ K.pcb[proc].state = PROCESS_SLEEPING
       /\ current_time >= K.pcb[proc].sleep_until
    THEN LET K1 == scheduler_add_process(process_wake(K, proc), proc)
         IN wake_sleepers([K1 EXCEPT !.woken = @ \cup {proc}],
                          i + 1, current_time)
    ELSE wake_sleepers(K, i + 1, current_time)

\* scheduler_tick()
scheduler_tick(K) ==
    LET current_time == K.timer_ticks
        current == process_get_current(K)
        K1 == IF current # NULL /\ K.pcb[current].state = PROCESS_RUNNING
              THEN [K EXCEPT !.pcb[current].cpu_time =
                               @ + (current_time - K.last_schedule_time)]
              ELSE K
        K2 == wake_sleepers(K1, 0, current_time)
    IN
    IF K2.hung THEN K2
    ELSE
    LET K3 == scheduler_preempt(K2) IN
    IF K3.hung THEN K3 ELSE [K3 EXCEPT !.last_schedule_time = current_time]

\* handle_timer_irq(): the tick counter advances, then scheduler_tick runs.
\* The handler is entered through an interrupt gate, which clears the
\* interrupt flag, and the return from the interrupt sets it again.
handle_timer_irq(K) ==
    CHOOSE R \in
      {IF K1.hung THEN K1 ELSE [K1 EXCEPT !.interrupts_on = K.interrupts_on] :
         K1 \in {scheduler_tick([interrupts_disable(K)
                                    EXCEPT !.timer_ticks = @ + 1])}} : TRUE

\* scheduler_set_algorithm(algorithm)
scheduler_set_algorithm(K, algorithm) ==
    scheduler_init([K EXCEPT !.current_algorithm = algorithm])

\* ----------------------------------------- process.c, scheduler's callers
\* process_terminate with the parent woken from any waiting state.
process_terminate_wakes_sleeper(K, proc) ==
    LET K1 == [K EXCEPT !.pcb[proc].state = PROCESS_ZOMBIE]
        parent == K1.pcb[proc].parent
        K2 == IF parent # NULL
                 /\ K1.pcb[parent].state \in {PROCESS_BLOCKED, PROCESS_SLEEPING}
              THEN [K1 EXCEPT !.pcb[parent].state = PROCESS_READY,
                              !.woken = @ \cup {parent}] ELSE K1
    IN scheduler_remove_process(K2, proc)

\* process_terminate(proc), proc not NULL.
process_terminate(K, proc) ==
    LET K1 == [K EXCEPT !.pcb[proc].state = PROCESS_ZOMBIE]
        parent == K1.pcb[proc].parent
        K2 == IF parent # NULL /\ K1.pcb[parent].state = PROCESS_BLOCKED
              THEN [K1 EXCEPT !.pcb[parent].state = PROCESS_READY,
                              !.woken = @ \cup {parent}] ELSE K1
    IN scheduler_remove_process(K2, proc)

\* The deadline process_sleep stores: tick counter plus milliseconds / 10,
\* cut to the 32 bits of sleep_until.
sleep_deadline(ticks, milliseconds) ==
    (ticks + (milliseconds \div TICK_MS)) % UINT32_MOD

\* process_sleep(milliseconds)
process_sleep(K, milliseconds) ==
    LET current == K.current_process IN
    IF current = NULL THEN K
    ELSE scheduler_yield(
             [K EXCEPT !.pcb[current].state = PROCESS_SLEEPING,
                       !.pcb[current].sleep_until =
                           sleep_deadline(K.timer_ticks, milliseconds)])

\* ------------------------------------------------ advanced_scheduler.c
\* The bucket of a process: its priority, clamped to the last bucket.
bucket_of(K, proc) ==
    IF K.pcb[proc].priority >= 6 THEN 5 ELSE K.pcb[proc].priority

\* get_system_time(): the tick counter (the function is declared in
\* advanced_scheduler.c:70 and defined nowhere under src/).
get_system_time(K) == K.timer_ticks

\* priority_to_nice
priority_to_nice(priority) ==
    CASE priority = PRIORITY_HIGH -> -10
      [] priority = PRIORITY_NORMAL -> 0
      [] priority = PRIORITY_LOW -> 10
      [] priority = PRIORITY_IDLE -> 19
      [] OTHER -> 0

\* nice_to_weight, for the nice values priority_to_nice returns.
nice_to_weight(nice) ==
    CASE nice = -10 -> 9548
      [] nice = 0 -> 1024
      [] nice = 10 -> 110
      [] nice = 19 -> 15

\* neural_priority_to_weight
neural_priority_to_weight(class) ==
    CASE class = 0 -> 88761
      [] class = 1 -> 29154
      [] class = 2 -> 1024
      [] class = 3 -> 335
      [] class = 4 -> 110
      [] class = 5 -> 15
      [] OTHER -> 1024

\* sched_init_process_stats(proc), proc and its sched_stats not NULL.
sched_init_process_stats(K, proc) ==
    [K EXCEPT !.pcb[proc].stats =
        [runtime |-> 0, context_switches |-> 0,
         last_runtime |-> get_system_time(K), vruntime |-> 0,
         neural_class |-> NEURAL_PRIORITY_NORMAL,
         nice_value |-> priority_to_nice(K.pcb[proc].priority),
         deadline |-> 0]]

\* sched_update_runtime_stats(proc, runtime)
sched_update_runtime_stats(K, proc, runtime) ==
    IF proc = NULL \/ K.pcb[proc].sched_stats = NULL THEN K
    ELSE [K EXCEPT
            !.pcb[proc].stats.runtime = @ + runtime,
            !.pcb[proc].stats.vruntime =
                @ + ((runtime * 1024)
                       \div nice_to_weight(K.pcb[proc].stats.nice_value))]

\* sched_add_process_to_runqueue(proc, cpu_id).  `fail` says
\* that the heap refuses the statistics block.  A PCB has at most one
\* statistics block; its address is modelled by the PCB's.
sched_add_process_to_runqueue(K, proc, cpu_id, fail) ==
    IF proc = NULL \/ cpu_id >= MAX_CPUS THEN K
    ELSE
    LET priority == bucket_of(K, proc)
        rq == K.neural_runqueues[cpu_id]
        K1 == [K EXCEPT
                 !.pcb[proc].next_in_queue = rq.active_queue[priority],
                 !.neural_runqueues[cpu_id].active_queue[priority] = proc,
                 !.neural_runqueues[cpu_id].process_count =
                     (@ + 1) % UINT32_MOD,
                 !.neural_runqueues[cpu_id].queue_bitmap = @ \cup {priority}]
    IN
    IF K.pcb[proc].sched_stats # NULL \/ fail THEN K1
    ELSE sched_init_process_stats(
             [K1 EXCEPT !.pcb[proc].sched_stats = proc], proc)

\* The search for proc's predecessor in a bucket: the node whose
\* next_in_queue is proc, NULL at the list's end, -1 when the loop does not
\* end.
RECURSIVE rq_find_prev(_, _, _, _)
rq_find_prev(K, prev, proc, fuel) ==
    IF ~(prev # NULL /\ K.pcb[prev].next_in_queue # proc) THEN prev
    ELSE IF fuel = 0 THEN -1
    ELSE rq_find_prev(K, K.pcb[prev].next_in_queue, proc, fuel - 1)

\* sched_remove_process_from_runqueue(proc, cpu_id).
sched_remove_process_from_runqueue(K, proc, cpu_id) ==
    IF proc = NULL \/ cpu_id >= MAX_CPUS THEN K
    ELSE
    LET priority == bucket_of(K, proc)
        rq == K.neural_runqueues[cpu_id]
        K1 == IF rq.active_queue[priority] = proc
              THEN [K EXCEPT !.neural_runqueues[cpu_id].active_queue[priority]
                                 = K.pcb[proc].next_in_queue]
              ELSE LET prev == rq_find_prev(K, rq.active_queue[priority],
                                            proc, WalkFuel)
                   IN IF prev = -1 THEN [K EXCEPT !.hung = TRUE]
                      ELSE IF prev # NULL
                      THEN [K EXCEPT !.pcb[prev].next_in_queue =
                                         K.pcb[proc].next_in_queue]
                      ELSE K
    IN
    IF K1.hung THEN K1
    ELSE
    LET K2 == [K1 EXCEPT
                 !.pcb[proc].next_in_queue = NULL,
                 !.neural_runqueues[cpu_id].process_count =
                     (@ - 1) % UINT32_MOD]
    IN IF K2.neural_runqueues[cpu_id].active_queue[priority] = NULL
       THEN [K2 EXCEPT !.neural_runqueues[cpu_id].queue_bitmap =
                           @ \ {priority}]
       ELSE K2

\* The nodes a scan of one bucket visits, following next_in_queue from
\* proc; -1 is appended when the scan has not ended after `fuel` nodes (the
\* list is cyclic and the scan never ends).
RECURSIVE bucket_walk(_, _, _)
bucket_walk(K, proc, fuel) ==
    IF proc = NULL THEN <<>>
    ELSE IF fuel = 0 THEN <<-1>>
    ELSE <<proc>> \o bucket_walk(K, K.pcb[proc].next_in_queue, fuel - 1)

\* for (priority = first; priority < last; priority++) over the buckets of
\* rq, each scanned to its end.
RECURSIVE rq_walk(_, _, _, _)
rq_walk(K, rq, first, last) ==
    IF first >= last THEN <<>>
    ELSE bucket_walk(K, rq.active_queue[first], WalkFuel)
           \o rq_walk(K, rq, first + 1, last)

\* The scan of cfs_pick_next_task over the nodes visited.
RECURSIVE cfs_best(_, _, _, _)
cfs_best(K, nodes, best_proc, min_vruntime) ==
    IF nodes = <<>> THEN best_proc
    ELSE IF Head(nodes) = -1 THEN -1
    ELSE LET proc == Head(nodes) IN
         IF K.pcb[proc].sched_stats # NULL
              /\ K.pcb[proc].stats.vruntime < min_vruntime
         THEN cfs_best(K, Tail(nodes), proc, K.pcb[proc].stats.vruntime)
         ELSE cfs_best(K, Tail(nodes), best_proc, min_vruntime)

\* The head of the first bucket that is not empty, whatever the virtual
\* runtimes.
cfs_pick_head(K, rq) ==
    IF \A b \in Buckets : rq.active_queue[b] = NULL THEN NULL
    ELSE rq.active_queue[Min({b \in Buckets : rq.active_queue[b] # NULL})]

cfs_pick_next_task(K, rq) ==
    cfs_best(K, rq_walk(K, rq, 0, 6), NULL, UINT64_MAX)

\* uint64_t score = (wait_time * neural_weight) / (runtime + 1), for the
\* neural class `class`, in uint64_t arithmetic.
neural_score(wait_time, class, runtime) ==
    ((wait_time * neural_priority_to_weight(class)) % UINT64_MOD)
        \div ((runtime + 1) % UINT64_MOD)

\* The scan of neural_pick_next_task over the nodes visited.
RECURSIVE neural_best(_, _, _, _)
neural_best(K, nodes, best_proc, best_score) ==
    IF nodes = <<>> THEN best_proc
    ELSE IF Head(nodes) = -1 THEN -1
    ELSE LET proc == Head(nodes)
             wait_time == (get_system_time(K) - K.pcb[proc].stats.last_runtime)
                            % UINT64_MOD
             score == neural_score(wait_time, K.pcb[proc].stats.neural_class,
                                   K.pcb[proc].stats.runtime)
         IN
         IF K.pcb[proc].sched_stats # NULL /\ score > best_score
         THEN neural_best(K, Tail(nodes), proc, score)
         ELSE neural_best(K, Tail(nodes), best_proc, best_score)

neural_pick_next_task(K, rq) ==
    neural_best(K, rq_walk(K, rq, 0, 6), NULL, 0)

\* strstr(proc->name, "neural") || strstr(.., "cyber") || strstr(.., "matrix")
\* for the names processes are created with.
cyberpunk_name(name) == name \in {"neural_net"}

\* The inner loop of cyberpunk_pick_next_task over the nodes of the first
\* bucket that is not empty.
RECURSIVE cyberpunk_best(_, _, _)
cyberpunk_best(K, nodes, best_proc) ==
    IF nodes = <<>> THEN best_proc
    ELSE IF Head(nodes) = -1 THEN -1
    ELSE IF cyberpunk_name(K.pcb[Head(nodes)].name) THEN Head(nodes)
    ELSE cyberpunk_best(K, Tail(nodes), best_proc)

RECURSIVE cyberpunk_scan(_, _, _)
cyberpunk_scan(K, rq, priority) ==
    IF priority >= 6 THEN NULL
    ELSE IF rq.active_queue[priority] # NULL
    THEN cyberpunk_best(K, bucket_walk(K, rq.active_queue[priority], WalkFuel),
                        rq.active_queue[priority])
    ELSE cyberpunk_scan(K, rq, priority + 1)

cyberpunk_pick_next_task(K, rq) == cyberpunk_scan(K, rq, 0)

\* The scan of realtime_pick_next_task over the nodes visited.
RECURSIVE realtime_best(_, _, _, _)
realtime_best(K, nodes, earliest_deadline, earliest_time) ==
    IF nodes = <<>> THEN earliest_deadline
    ELSE IF Head(nodes) = -1 THEN -1
    ELSE LET proc == Head(nodes) IN
         IF /\ K.pcb[proc].sched_stats # NULL
            /\ K.pcb[proc].stats.deadline > 0
            /\ K.pcb[proc].stats.deadline < earliest_time
         THEN realtime_best(K, Tail(nodes), proc, K.pcb[proc].stats.deadline)
         ELSE realtime_best(K, Tail(nodes), earliest_deadline, earliest_time)

\* realtime_pick_next_task scanning the buckets 0 .. last - 1.
realtime_scan(K, rq, last) ==
    realtime_best(K, rq_walk(K, rq, 0, last), NULL, UINT64_MAX)

realtime_pick_next_task(K, rq) == realtime_scan(K, rq, 2)

\* The round-robin fallback of pick_next_task.
RECURSIVE round_robin_scan(_, _)
round_robin_scan(rq, priority) ==
    IF priority >= 6 THEN NULL
    ELSE IF rq.active_queue[priority] # NULL THEN rq.active_queue[priority]
    ELSE round_robin_scan(rq, priority + 1)

\* pick_next_task: the process picked, NULL for none, -1 when the scan does
\* not end.
pick_next_task(K, rq) ==
    CASE rq.algorithm = SCHED_ALGORITHM_CFS -> cfs_pick_next_task(K, rq)
      [] rq.algorithm = SCHED_ALGORITHM_REALTIME ->
             realtime_pick_next_task(K, rq)
      [] rq.algorithm = SCHED_ALGORITHM_NEURAL -> neural_pick_next_task(K, rq)
      [] rq.algorithm = SCHED_ALGORITHM_CYBERPUNK ->
             cyberpunk_pick_next_task(K, rq)
      [] OTHER -> round_robin_scan(rq, 0)

\* Lines 342-350 of sched_schedule_next without the statistics update.
schedule_selected_unrecorded(K, cpu_id, next_proc) ==
    [K EXCEPT !.neural_runqueues[cpu_id].current = next_proc,
              !.neural_runqueues[cpu_id].clock = get_system_time(K)]

\* Lines 342-350 of sched_schedule_next: a process was picked.
schedule_selected(K, cpu_id, next_proc) ==
    LET clock == get_system_time(K)
        K1 == [K EXCEPT !.neural_runqueues[cpu_id].current = next_proc,
                        !.neural_runqueues[cpu_id].clock = clock]
    IN IF K.pcb[next_proc].sched_stats # NULL
       THEN [K1 EXCEPT
               !.pcb[next_proc].stats.context_switches = (@ + 1) % UINT32_MOD,
               !.pcb[next_proc].stats.last_runtime = clock]
       ELSE K1

\* sched_schedule_next(cpu_id)
sched_schedule_next(K, cpu_id) ==
    IF cpu_id >= MAX_CPUS THEN [K EXCEPT !.ret = NULL]
    ELSE
    LET next_proc == pick_next_task(K, K.neural_runqueues[cpu_id]) IN
    IF next_proc = -1 THEN [K EXCEPT !.hung = TRUE]
    ELSE IF next_proc # NULL
    THEN [schedule_selected(K, cpu_id, next_proc) EXCEPT !.ret = next_proc]
    ELSE [K EXCEPT !.neural_runqueues[cpu_id].current =
                       K.neural_runqueues[cpu_id].idle_task,
                   !.ret = K.neural_runqueues[cpu_id].idle_task]

\* smp_get_cpu_count()
smp_get_cpu_count(K) == K.neural_cpu_count

\* sched_set_algorithm with the loop over the run queues stopping after the
\* boot core's.
sched_set_algorithm_boot_core(K, algorithm) ==
    [K EXCEPT !.global_algorithm = algorithm,
              !.neural_runqueues[0].algorithm = algorithm]

\* sched_set_algorithm(algorithm): the run queues of the detected cores are
\* updated.
sched_set_algorithm(K, algorithm) ==
    [K EXCEPT !.global_algorithm = algorithm,
              !.neural_runqueues =
                  [c \in CpuIds |->
                     IF c < smp_get_cpu_count(K)
                     THEN [@[c] EXCEPT !.algorithm = algorithm] ELSE @[c]]]

\* advanced_scheduler_init(): the run queues of the detected cores are
\* cleared.
advanced_scheduler_init(K) ==
    [K EXCEPT !.neural_runqueues =
        [c \in CpuIds |->
           IF c < smp_get_cpu_count(K)
           THEN [active_queue |-> [b \in Buckets |-> NULL],
                 queue_bitmap |-> {}, process_count |-> 0, current |-> NULL,
                 idle_task |-> NULL, clock |-> get_system_time(K),
                 algorithm |-> K.global_algorithm]
           ELSE @[c]]]

\* --------------------------------------------------------------- ipc.c
\* process_get_by_pid (process.c)
process_get_by_pid(K, pid) ==
    IF pid >= MAX_PROCESSES THEN NULL ELSE K.process_table[pid]

\* kmalloc of a message block and of a mailbox block: the lowest free one,
\* NULL when the heap has none left.
kmalloc_msg(K) == IF Msgs \ K.msg_heap = {} THEN NULL ELSE Min(Msgs \ K.msg_heap)
kmalloc_queue(K) == IF Procs \ K.mq_heap = {} THEN NULL ELSE Min(Procs \ K.mq_heap)

\* Lines 81-89 of ipc_send_message: the message is appended to the
\* destination's queue.
ipc_append(K, dest, m) ==
    LET q == K.pcb[dest].message_queue
        t == K.mq[q].tail
    IN
    IF t # NULL
    THEN [K EXCEPT !.msg[t].next = m, !.mq[q].tail = m,
                   !.mq[q].count = (@ + 1) % UINT32_MOD]
    ELSE [K EXCEPT !.mq[q].head = m, !.mq[q].tail = m,
                   !.mq[q].count = (@ + 1) % UINT32_MOD]

\* Lines 91-95 without their effect.
ipc_wake_nobody(K, dest) == K

\* Lines 91-95: a BLOCKED destination is made READY and handed to the
\* scheduler.
ipc_wake(K, dest) ==
    IF K.pcb[dest].state = PROCESS_BLOCKED
    THEN CHOOSE R \in {scheduler_add_process(K1, dest) :
                        K1 \in {[K EXCEPT !.pcb[dest].state = PROCESS_READY,
                                          !.woken = @ \cup {dest}]}} :
             TRUE
    ELSE K

\* Lines 81-98.
ipc_enqueue(K, dest, m) ==
    CHOOSE R \in {[ipc_wake(K1, dest) EXCEPT !.ret = 0] :
                    K1 \in {ipc_append(K, dest, m)}} : TRUE

\* ipc_send_message's error path for a mailbox that cannot be allocated:
\* the message block goes back to the heap.
send_queue_failure(K, m) == [K EXCEPT !.msg_heap = @ \ {m}, !.ret = -1]

\* No size check.
message_too_large_never(size) == FALSE

\* The size check of ipc_send_message.
message_too_large(size) == size > MAX_MESSAGE_SIZE

\* Lines 70-98: the destination's mailbox is allocated on first use.
ipc_deliver(K, dest, m, fail) ==
    LET q == IF fail = "queue" THEN NULL ELSE kmalloc_queue(K) IN
    IF K.pcb[dest].message_queue # NULL THEN ipc_enqueue(K, dest, m)
    ELSE IF q = NULL THEN send_queue_failure(K, m)
    ELSE CHOOSE R \in {ipc_enqueue(K1, dest, m) :
                        K1 \in {[K EXCEPT !.mq_heap = @ \cup {q},
                                          !.mq[q] = ZeroQueue,
                                          !.pcb[dest].message_queue = q]}} :
             TRUE

\* ipc_send_message(dest_pid, data, size), size being the length of data.
\* `fail` is the allocation the heap refuses in this call, if any.
ipc_send_message(K, dest_pid, data, fail) ==
    LET size == Len(data)
        dest == process_get_by_pid(K, dest_pid)
        sender == process_get_current(K)
        m == IF fail = "msg" THEN NULL ELSE kmalloc_msg(K)
    IN
    IF message_too_large(size) THEN [K EXCEPT !.ret = -1]
    ELSE IF dest = NULL THEN [K EXCEPT !.ret = -1]
    ELSE IF sender = NULL THEN [K EXCEPT !.ret = -1]
    ELSE IF m = NULL THEN [K EXCEPT !.ret = -1]
    ELSE CHOOSE R \in
           {ipc_deliver(K1, dest, m, fail) :
              K1 \in {[K EXCEPT !.msg_heap = @ \cup {m},
                                !.msg[m] = [sender_pid |-> K.pcb[sender].pid,
                                            size |-> size,
                                            data |-> SubSeq(data, 1, size),
                                            next |-> NULL]]}} : TRUE

\* ipc_receive_message(buffer, max_size): the return value is the number of
\* bytes copied, the buffer holds them.
ipc_receive_message(K, max_size) ==
    LET current == process_get_current(K)
        q == IF current = NULL THEN NULL ELSE K.pcb[current].message_queue
    IN
    IF current = NULL \/ q = NULL THEN [K EXCEPT !.ret = -1]
    ELSE IF K.mq[q].head = NULL THEN [K EXCEPT !.ret = -1]
    ELSE
    LET m == K.mq[q].head
        copy_size == IF K.msg[m].size > max_size THEN max_size
                     ELSE K.msg[m].size
    IN [K EXCEPT !.mq[q].head = K.msg[m].next,
                 !.mq[q].tail = IF K.msg[m].next = NULL THEN NULL ELSE @,
                 !.mq[q].count = (@ - 1) % UINT32_MOD,
                 !.buffer = SubSeq(K.msg[m].data, 1, copy_size),
                 !.msg_heap = @ \ {m},
                 !.ret = copy_size]

\* A process that waits: the RUNNING process proc takes the state BLOCKED
\* (the lifecycle's RUNNING -> BLOCKED; no function of the kernel assigns
\* the state, the kernel's code only tests for it).
process_block(K, proc) ==
    IF K.pcb[proc].state = PROCESS_RUNNING
    THEN [K EXCEPT !.pcb[proc].state = PROCESS_BLOCKED] ELSE K

\* --------------------------------------------------------------- smp.c
\* A write of a core's status field, recorded in the call's log.
set_status(K, cpu_id, status) ==
    [K EXCEPT !.neural_matrix[cpu_id].status = status,
              !.log = Append(@, <<"status", cpu_id, status>>)]

\* detect_neural_cores: the boot core is ONLINE, the cores below 4 are
\* enumerated OFFLINE.
RECURSIVE detect_from(_, _)
detect_from(K, i) ==
    IF ~(i < DETECTED_CORES /\ i < MAX_CPUS) THEN K
    ELSE detect_from([set_status(K, i, CPU_STATUS_OFFLINE) EXCEPT
                        !.neural_matrix[i].online = 0,
                        !.neural_cpu_count = @ + 1], i + 1)

detect_neural_cores(K) ==
    detect_from([set_status(K, 0, CPU_STATUS_ONLINE) EXCEPT
                   !.neural_matrix[0].online = 1,
                   !.neural_cpu_count = 1,
                   !.active_neural_cores = 1], 1)

\* Lines 264-277 of start_application_processor without the count of the
\* active cores.
ap_online_uncounted(K, cpu_id) ==
    [set_status(set_status(K, cpu_id, CPU_STATUS_NEURAL_SYNC), cpu_id,
                CPU_STATUS_ONLINE)
       EXCEPT !.neural_matrix[cpu_id].online = 1, !.ret = 0]

\* Lines 264-277 of start_application_processor: the start-up is taken to
\* have succeeded.
ap_online(K, cpu_id) ==
    [set_status(set_status(K, cpu_id, CPU_STATUS_NEURAL_SYNC), cpu_id,
                CPU_STATUS_ONLINE)
       EXCEPT !.neural_matrix[cpu_id].online = 1,
              !.active_neural_cores = @ + 1, !.ret = 0]

\* start_application_processor(cpu_id).  `outcome` is what the hardware
\* does: "started" (the interrupts are delivered and the core comes up),
\* "silent" (the interrupts are delivered and the core never runs) or
\* "stuck" (the delivery-status bit of the interrupt command register
\* never clears, and the wait loop of line 243 never ends).
start_application_processor(K, cpu_id, outcome) ==
    IF cpu_id >= K.neural_cpu_count \/ cpu_id = 0 THEN [K EXCEPT !.ret = -1]
    ELSE LET K1 == set_status(K, cpu_id, CPU_STATUS_INITIALIZING) IN
         IF outcome = "stuck" THEN [K1 EXCEPT !.hung = TRUE]
         ELSE ap_online(K1, cpu_id)

\* The loop of smp_init over the additional cores, from core i on.
RECURSIVE start_cores(_, _, _)
start_cores(K, i, hw) ==
    IF ~(i < K.neural_cpu_count) THEN K
    ELSE \* the result of the call, computed once
         LET K1 == CHOOSE R \in {start_application_processor(K, i, hw[i])} :
                       TRUE
         IN IF K1.hung THEN K1
            ELSE IF K1.ret = 0 THEN start_cores(K1, i + 1, hw)
            ELSE start_cores(set_status(K1, i, CPU_STATUS_ERROR), i + 1, hw)

\* smp_init(); hw[i] is what the hardware does when core i is started.
\* (apic_init writes registers of the interrupt controller only.)
smp_init(K, hw) ==
    LET K1 == CHOOSE R \in {start_cores(detect_neural_cores(K), 1, hw)} : TRUE
    IN IF K1.hung THEN K1
       ELSE [K1 EXCEPT !.smp_initialized = 1, !.ret = NULL]

\* smp_get_cpu_by_id(cpu_id): the core's index in neural_matrix, -1 for
\* NULL (index 0 is the boot core).
smp_get_cpu_by_id(K, cpu_id) ==
    IF cpu_id >= K.neural_cpu_count THEN [K EXCEPT !.ret = -1]
    ELSE [K EXCEPT !.ret = cpu_id]

\* smp_send_ipi(cpu_id, vector); `delivered` says whether the
\* delivery-status bit clears.
smp_send_ipi(K, cpu_id, vector, delivered) ==
    IF cpu_id >= K.neural_cpu_count \/ K.neural_matrix[cpu_id].online = 0
    THEN K
    ELSE IF delivered
    THEN [K EXCEPT !.log = Append(@, <<"ipi", cpu_id, vector>>)]
    ELSE [K EXCEPT !.log = Append(@, <<"ipi", cpu_id, vector>>),
                   !.hung = TRUE]

\* --------------------------------------------------------------- actions
\* Every action is one call of an exported function by the code that is
\* executing; a call that does not return leaves the kernel hung.
InitFrom(K) ==
    /\ current_process = K.current_process
    /\ idle_process = K.idle_process
    /\ next_pid = K.next_pid
    /\ active_process_count = K.active_process_count
    /\ total_processes = K.total_processes
    /\ process_table = K.process_table
    /\ heap = K.heap
    /\ pcb = K.pcb
    /\ current_algorithm = K.current_algorithm
    /\ ready_queue_head = K.ready_queue_head
    /\ ready_queue_tail = K.ready_queue_tail
    /\ running_process = K.running_process
    /\ last_schedule_time = K.last_schedule_time
    /\ time_slice_counter = K.time_slice_counter
    /\ priority_queues = K.priority_queues
    /\ timer_ticks = K.timer_ticks
    /\ interrupts_on = K.interrupts_on
    /\ inflight = K.inflight
    /\ neural_runqueues = K.neural_runqueues
    /\ global_algorithm = K.global_algorithm
    /\ neural_matrix = K.neural_matrix
    /\ neural_cpu_count = K.neural_cpu_count
    /\ active_neural_cores = K.active_neural_cores
    /\ smp_initialized = K.smp_initialized
    /\ msg_heap = K.msg_heap
    /\ msg = K.msg
    /\ mq_heap = K.mq_heap
    /\ mq = K.mq
    /\ buffer = K.buffer
    /\ op = [name |-> "boot"]
    /\ ret = NULL
    /\ hung = FALSE
    /\ log = <<>>
    /\ switches = <<>>
    /\ woken = {}
    /\ reaped = {}
    /\ history = <<>>

\* The hardware on which every core that is started comes up.
ApIds == 1..(MAX_CPUS - 1)
AllStart == [c \in ApIds |-> "started"]

\* kmain: process_init, scheduler_init, smp_init, advanced_scheduler_init,
\* interrupts_enable.
BootedKern ==
    CHOOSE R \in {[interrupts_enable(advanced_scheduler_init(K2))
                      EXCEPT !.log = <<>>, !.ret = NULL] :
                    K2 \in {smp_init(K1, AllStart) :
                              K1 \in {scheduler_init(process_init(BootKern))}}} :
        TRUE

\* n timer interrupts taken one after the other.
RECURSIVE ticks(_, _)
ticks(K, n) ==
    IF n = 0 THEN K
    ELSE CHOOSE R \in {ticks(K1, n - 1) : K1 \in {handle_timer_irq(K)}} : TRUE

\* kmain's process test, reached after n timer interrupts (the timer runs
\* from interrupts_enable on): two processes are created and enqueued.
\* This is the initial state.
AfterKmain(n) ==
    \E K0 \in {ticks(BootedKern, n)} :
    \E K1 \in {process_create(K0, "test_proc_1", PRIORITY_NORMAL, "none")} :
    \E K2 \in {process_create(K1, "test_proc_2", PRIORITY_LOW, "none")} :
    \E K3 \in {IF K1.ret # NULL THEN scheduler_add_process(K2, K1.ret)
                ELSE K2} :
    \E K4 \in {IF K2.ret # NULL THEN scheduler_add_process(K3, K2.ret)
                ELSE K3} :
      InitFrom([K4 EXCEPT !.ret = NULL, !.log = <<>>, !.switches = <<>>,
                          !.woken = {}])

\* n more processes created after boot, none enqueued.
RECURSIVE spawn(_, _)
spawn(K, n) ==
    IF n = 0 THEN [K EXCEPT !.ret = NULL, !.log = <<>>]
    ELSE spawn(process_create(K, "user", PRIORITY_NORMAL, "none"), n - 1)

TableFull(table) == \A i \in 1..(MAX_PROCESSES - 1) : table[i] # NULL

\* A call that none of the observers records.
Call(K, call) == Commit(K, call) /\ UNCHANGED <<reaped, history>>

ProcessCreate(priorities, failures) ==
    /\ ~hung
    /\ total_processes < MaxCreates
    /\ \E priority \in priorities, fail \in failures :
         Call(process_create(Kern, "user", priority, fail),
                [name |-> "process_create", fail |-> fail])

ProcessDestroy ==
    /\ ~hung
    /\ \E p \in heap :
         /\ Commit(process_destroy(Kern, p),
                   [name |-> "process_destroy", proc |-> p,
                    pid |-> pcb[p].pid])
            /\ reaped' = reaped \cup {pcb[p].pid}
            /\ UNCHANGED history

\* A creation the memory subsystem serves, in a table that has a free slot.
Create ==
    /\ ~TableFull(process_table)
    /\ Cardinality(heap) < MaxLive
    /\ ProcessCreate(CreatePriorities, {"none"})

Add ==
    /\ ~hung
    /\ \E p \in heap :
         Call(scheduler_add_process(Kern, p),
                [name |-> "scheduler_add_process", proc |-> p])

Remove ==
    /\ ~hung
    /\ \E p \in heap :
         Call(scheduler_remove_process(Kern, p),
                [name |-> "scheduler_remove_process", proc |-> p])

SchedNext ==
    /\ ~hung
    /\ Call(scheduler_next(Kern), [name |-> "scheduler_next"])

Yield ==
    /\ ~hung
    /\ Call(scheduler_yield(Kern), [name |-> "scheduler_yield"])

TimerIrq ==
    /\ ~hung
    /\ timer_ticks < MaxTicks
    /\ Call(handle_timer_irq(Kern), [name |-> "handle_timer_irq"])

Sleep ==
    /\ ~hung
    /\ \E ms \in SleepMs :
         Call(process_sleep(Kern, ms), [name |-> "process_sleep", ms |-> ms])

Wake ==
    /\ ~hung
    /\ \E p \in heap :
         Call(process_wake(Kern, p), [name |-> "process_wake", proc |-> p])

Terminate ==
    /\ ~hung
    /\ \E p \in heap :
         Call(process_terminate(Kern, p),
                [name |-> "process_terminate", proc |-> p])

SetAlgorithm ==
    /\ ~hung
    /\ \E a \in Algorithms :
         Call(scheduler_set_algorithm(Kern, a),
                [name |-> "scheduler_set_algorithm", algorithm |-> a])

RqAdd ==
    /\ ~hung
    /\ \E p \in heap, c \in Cpus :
         /\ neural_runqueues[c].process_count < MaxQueued
         /\ Call(sched_add_process_to_runqueue(Kern, p, c, FALSE),
                 [name |-> "sched_add_process_to_runqueue", proc |-> p,
                  cpu_id |-> c])

\* Removal is explored on run queues that count at least one process, which
\* keeps process_count from running down through all of its 32-bit values.
RqRemove ==
    /\ ~hung
    /\ \E p \in heap, c \in Cpus :
         /\ neural_runqueues[c].process_count > 0
         /\ Call(sched_remove_process_from_runqueue(Kern, p, c),
                 [name |-> "sched_remove_process_from_runqueue", proc |-> p,
                  cpu_id |-> c])

\* scheduler_add_process of a process that is not waiting in the queue, and
\* scheduler_next, both recorded.
RECURSIVE Waiting(_, _)
Waiting(h, q) ==
    IF h = <<>> THEN q
    ELSE IF Head(h)[1] = "add" THEN Waiting(Tail(h), Append(q, Head(h)[2]))
    ELSE Waiting(Tail(h), IF q = <<>> THEN q ELSE Tail(q))

HistoryCap == 2 * MaxLive + 1

FifoAdd ==
    /\ ~hung
    /\ Len(history) < HistoryCap
    /\ \E p \in heap :
         /\ pcb[p].state = PROCESS_READY
         /\ \A i \in DOMAIN Waiting(history, <<>>) :
                Waiting(history, <<>>)[i] # p
         /\ Commit(scheduler_add_process(Kern, p),
                   [name |-> "scheduler_add_process", proc |-> p])
         /\ history' = Append(history, <<"add", p>>)
         /\ UNCHANGED reaped

FifoNext ==
    /\ ~hung
    /\ Len(history) < HistoryCap
    /\ Commit(scheduler_next(Kern), [name |-> "scheduler_next"])
    /\ history' = Append(history, <<"next", ret'>>)
    /\ UNCHANGED reaped

\* The process table on its own: creation, with the memory subsystem free
\* to refuse any allocation, and destruction.
InitProc == InitFrom(BootedKern)
NextProc == ProcessCreate({PRIORITY_NORMAL}, AllocFailures) \/ ProcessDestroy
SpecProc == InitProc /\ [][NextProc]_vars

\* The classic scheduler after boot: processes are created, enqueued,
\* handed out, switched to and terminated.
Init == InitFrom(BootedKern)
Next ==
    \/ Create
    \/ Add
    \/ SchedNext
    \/ Yield
    \/ Terminate
Spec == Init /\ [][Next]_vars

\* Round robin as a queue: MaxLive processes, enqueued and handed out.
InitFifo == InitFrom(spawn(BootedKern, MaxLive - 1))
NextFifo == FifoAdd \/ FifoNext
SpecFifo == InitFifo /\ [][NextFifo]_vars

\* Time: after kmain's process test the timer runs and processes sleep,
\* are woken and yield.  The test is reached right after boot, or when the
\* tick counter is one process_sleep(50) away from the end of 32 bits.
InitTime == \E n \in BootTicks : AfterKmain(n)
NextTime == Sleep \/ TimerIrq \/ Yield \/ Wake
SpecTime == InitTime /\ [][NextTime]_vars

\* The per-core run queues beside the classic queue, and termination.
InitRunq == AfterKmain(0)
NextRunq == RqAdd \/ RqRemove \/ Terminate
SpecRunq == InitRunq /\ [][NextRunq]_vars

\* ------------------------------------------------------------ properties
\* The processes that exist: allocated and past the CREATED stage.
LiveProcs == {p \in heap : pcb[p].state # PROCESS_CREATED}

\* C1: after any sequence of process_create and process_destroy calls no two
\* live processes have the same PID, each is the one the process table
\* registers under its PID, and the slot of a PID whose process was just
\* destroyed is free, so that a later process_create can assign it again.
C1_PidsUnique ==
    /\ \A p, q \in LiveProcs : p # q => pcb[p].pid # pcb[q].pid
    /\ \A p \in LiveProcs :
         pcb[p].pid \in Pids /\ process_table[pcb[p].pid] = p
    /\ \A i \in Pids : process_table[i] # NULL => process_table[i] \in LiveProcs
    /\ op.name = "process_destroy" => process_table[op.pid] = NULL

\* A process_create that returned a process whose PID had belonged to a
\* process destroyed earlier, while other processes are alive.
C1_PidReused ==
    /\ op.name = "process_create"
    /\ ret # NULL
    /\ pcb[ret].pid \in reaped
    /\ Cardinality(LiveProcs) >= 2

\* The resources of the log entries of one kind, in log order.
RECURSIVE Logged(_, _)
Logged(l, kind) ==
    IF l = <<>> THEN <<>>
    ELSE IF Head(l)[1] = kind THEN <<Head(l)[2]>> \o Logged(Tail(l), kind)
    ELSE Logged(Tail(l), kind)

Reverse(s) == [i \in 1..Len(s) |-> s[Len(s) + 1 - i]]

\* C8: a process_create in which the PCB, address-space, stack or heap
\* allocation fails releases what the call had acquired, each resource once
\* and in reverse order of acquisition, returns NULL, and leaves the process
\* table, the active-process count and the allocated PCBs as they were.
\* (A call that never comes back from PID assignment reaches none of the
\* later allocations.)
C8_RollbackInReverse ==
    [][(op'.name = "process_create" /\ op'.fail # "none" /\ ~hung') =>
          /\ ret' = NULL
          /\ Logged(log', "release") = Reverse(Logged(log', "acquire"))
          /\ process_table' = process_table
          /\ active_process_count' = active_process_count
          /\ heap' = heap]_vars

\* A process_create whose heap allocation failed after the PCB, the address
\* space and the stack were acquired.
C8_HeapFailureRolledBack ==
    /\ op.name = "process_create"
    /\ op.fail = "heap"
    /\ ret = NULL
    /\ log = << <<"acquire", "pcb">>, <<"acquire", "aspace">>,
                <<"acquire", "stack">>, <<"release", "stack">>,
                <<"release", "aspace">>, <<"release", "pcb">> >>

\* C9: when every usable PID slot of the process table is occupied,
\* process_create returns, returns NULL, and leaves the process table, the
\* PID counter, the active-process count and the total-created count
\* unchanged.
C9_FullTableFailsCleanly ==
    [][(TableFull(process_table) /\ op'.name = "process_create") =>
          /\ ~hung'
          /\ ret' = NULL
          /\ process_table' = process_table
          /\ next_pid' = next_pid
          /\ active_process_count' = active_process_count
          /\ total_processes' = total_processes]_vars

\* The nodes a walk meets that starts at `start` and follows the link
\* `field`, at most `fuel` of them (a cyclic list never ends).
RECURSIVE Chain(_, _, _)
Chain(field, start, fuel) ==
    IF start = NULL \/ fuel = 0 THEN <<>>
    ELSE <<start>> \o Chain(field, pcb[start][field], fuel - 1)

LinkFuel == 2 * HeapSlots

Range(s) == {s[i] : i \in DOMAIN s}

TimesIn(s, p) == Cardinality({i \in DOMAIN s : s[i] = p})

RECURSIVE SumOver(_, _)
SumOver(S, f) ==
    IF S = {} THEN 0
    ELSE LET x == CHOOSE y \in S : TRUE IN f[x] + SumOver(S \ {x}, f)

\* How often p is linked in the classic ready list and priority lists.
ClassicLinks(p) ==
    TimesIn(Chain("next", ready_queue_head, LinkFuel), p)
    + SumOver(PrioLevels,
              [i \in PrioLevels |->
                 TimesIn(Chain("next", priority_queues[i], LinkFuel), p)])

\* How often p is linked in the buckets of the per-core run queues.
RunqLinks(p) ==
    SumOver(Cpus \X Buckets,
            [cb \in Cpus \X Buckets |->
               TimesIn(Chain("next_in_queue",
                             neural_runqueues[cb[1]].active_queue[cb[2]],
                             LinkFuel), p)])

\* C3: in every reachable state each process is linked at most once in
\* total across the classic ready list and the five priority lists, and at
\* most once across the buckets of all per-core run queues.
C3_LinkedAtMostOnce ==
    \A p \in heap : ClassicLinks(p) <= 1 /\ RunqLinks(p) <= 1

\* Replays the recorded scheduler_add_process / scheduler_next calls against
\* a first-in first-out queue q: every scheduler_next returned the oldest
\* process waiting, or NULL when none was.
RECURSIVE FifoOk(_, _)
FifoOk(h, q) ==
    IF h = <<>> THEN TRUE
    ELSE IF Head(h)[1] = "add" THEN FifoOk(Tail(h), Append(q, Head(h)[2]))
    ELSE IF q = <<>> THEN Head(h)[2] = NULL /\ FifoOk(Tail(h), q)
    ELSE Head(h)[2] = Head(q) /\ FifoOk(Tail(h), Tail(q))

\* C4: in round-robin mode, processes added with scheduler_add_process and
\* not removed are returned by successive scheduler_next calls in the order
\* they were added, and the call after the last of them returns NULL.
C4_RoundRobinFifo == FifoOk(history, <<>>)

\* Every process was added, in some order, then as many scheduler_next
\* calls were made and one more, which returned NULL.
C4_AllAddedAllReturned ==
    LET n == Cardinality(heap) IN
    /\ n >= 3
    /\ Len(history) = 2 * n + 1
    /\ \A i \in 1..n : history[i][1] = "add"
    /\ \A i \in 1..n : history[n + i] = <<"next", history[i][2]>>
    /\ history[2 * n + 1] = <<"next", NULL>>
    /\ history[1][2] > history[2][2]

\* C5: in round-robin mode, when the RUNNING process P1 calls
\* scheduler_yield while another process P2 is at the head of the ready
\* list, context_switch is invoked with P1 as source and P2 as target, and
\* afterwards P1 is READY and is the last element of the ready list (it was
\* appended at the tail, not put at the head).
C5_YieldSwitchesToHead ==
    [][(/\ op'.name = "scheduler_yield"
        /\ current_algorithm = SCHED_ROUND_ROBIN
        /\ running_process # NULL
        /\ pcb[running_process].state = PROCESS_RUNNING
        /\ ready_queue_head # NULL
        /\ ready_queue_head # running_process) =>
          /\ switches' = << <<running_process, ready_queue_head>> >>
          /\ pcb'[running_process].state = PROCESS_READY
          /\ ready_queue_tail' = running_process]_vars

\* C10: in every reachable state at most one process is RUNNING, and it is
\* the target of the most recent context_switch.
C10_OnlySwitchTargetRuns ==
    \A p \in heap : pcb[p].state = PROCESS_RUNNING => p = running_process

\* C2: every change of a process's lifecycle state follows CREATED -> READY
\* -> RUNNING -> {READY | BLOCKED | SLEEPING} -> ZOMBIE: a process becomes
\* RUNNING only from READY, becomes SLEEPING or BLOCKED only from RUNNING,
\* never returns to CREATED, and once ZOMBIE takes no other state.
C2_LifecycleFollowed ==
    [][\A p \in heap :
         pcb'[p].state # pcb[p].state =>
           /\ pcb'[p].state = PROCESS_RUNNING => pcb[p].state = PROCESS_READY
           /\ pcb'[p].state \in {PROCESS_SLEEPING, PROCESS_BLOCKED}
                => pcb[p].state = PROCESS_RUNNING
           /\ pcb'[p].state # PROCESS_CREATED
           /\ pcb[p].state # PROCESS_ZOMBIE]_vars

\* C6: process_sleep(ms) called at tick t sets the caller's sleep-until
\* deadline to t + ms/10; a timer tick earlier than a sleeper's deadline
\* leaves it SLEEPING, and the first tick at or after the deadline makes it
\* READY and enqueues it.
C6_SleepDeadline ==
    [][/\ (op'.name = "process_sleep" /\ current_process # NULL) =>
            pcb'[current_process].sleep_until
                = timer_ticks + (op'.ms \div TICK_MS)
       /\ op'.name = "handle_timer_irq" =>
            \A p \in heap :
              pcb[p].state = PROCESS_SLEEPING =>
                IF timer_ticks' < pcb[p].sleep_until
                THEN pcb'[p].state = PROCESS_SLEEPING /\ p \notin woken'
                ELSE p \in woken']_vars

\* C7: after process_terminate(p) returns, p is ZOMBIE and is linked in no
\* scheduler queue: not in the classic ready list, not in a classic
\* priority list, and not in any per-core run queue.
C7_TerminatedIsUnlinked ==
    op.name = "process_terminate" =>
        /\ pcb[op.proc].state = PROCESS_ZOMBIE
        /\ ClassicLinks(op.proc) = 0
        /\ RunqLinks(op.proc) = 0


\* ------------------------------------------------------------ messages
\* The process whose code is executing: the target of the last
\* context_switch, before the first one the boot code (the idle process).
Executing == IF running_process # NULL THEN running_process ELSE current_process

\* The payloads sent: one of every length up to one more than a message
\* holds.
Payloads == {[i \in 1..n |-> i] : n \in 0..(MAX_MESSAGE_SIZE + 1)}
MaxReceives == 2

Sends(h) == Cardinality({i \in DOMAIN h : h[i][1] = "send"})
Receives(h) == Cardinality({i \in DOMAIN h : h[i][1] = "recv"})

\* ipc_send_message by the executing process, to a PID in the table's range
\* or the first beyond it, the heap refusing the message block, the mailbox
\* block or nothing; a send that succeeded is recorded with its destination
\* and payload.
Send ==
    /\ ~hung
    /\ Sends(history) < MaxSends
    /\ \E dest_pid \in 1..MAX_PROCESSES, data \in Payloads,
            fail \in {"none", "msg", "queue"} :
         /\ Commit(ipc_send_message(Kern, dest_pid, data, fail),
                   [name |-> "ipc_send_message", dest_pid |-> dest_pid,
                    data |-> data, fail |-> fail])
         /\ history' = IF ret' = 0
                       THEN Append(history, <<"send", dest_pid, data>>)
                       ELSE history
         /\ UNCHANGED reaped

\* ipc_receive_message by the executing process, recorded with the caller's
\* PID, the buffer size, the return value and the bytes received.
Receive ==
    /\ ~hung
    /\ Receives(history) < MaxReceives
    /\ Executing # NULL
    /\ \E max_size \in 1..MAX_MESSAGE_SIZE :
         /\ Commit(ipc_receive_message(Kern, max_size),
                   [name |-> "ipc_receive_message", max_size |-> max_size,
                    caller |-> Executing])
         /\ history' = Append(history,
                              <<"recv", pcb[Executing].pid, max_size, ret',
                                IF ret' = -1 THEN <<>> ELSE buffer'>>)
         /\ UNCHANGED reaped

Block ==
    /\ ~hung
    /\ \E p \in heap :
         /\ pcb[p].state = PROCESS_RUNNING
         /\ Call(process_block(Kern, p), [name |-> "block", proc |-> p])

\* process_terminate of a process that is linked in the ready list, or
\* while the ready list is empty.
Kill ==
    /\ ~hung
    /\ \E p \in heap :
         /\ \/ ready_queue_head = NULL /\ ready_queue_tail = NULL
            \/ ClassicLinks(p) >= 1
         /\ Call(process_terminate(Kern, p),
                 [name |-> "process_terminate", proc |-> p])

\* One of the first timer interrupts.
EarlyTick == timer_ticks < MaxEarlyTicks /\ TimerIrq

\* A message without payload to a process that is BLOCKED, not recorded.
Notify ==
    /\ ~hung
    /\ \E p \in heap :
         /\ pcb[p].state = PROCESS_BLOCKED
         /\ Call(ipc_send_message(Kern, pcb[p].pid, <<>>, "none"),
                 [name |-> "ipc_send_message", dest_pid |-> pcb[p].pid,
                  data |-> <<>>, fail |-> "none"])

\* Messages: in a booted kernel with one process created and enqueued, or
\* in a kernel whose first process was created before process_init ran
\* (there is no current process then), processes send, receive, yield and
\* block.
InitIpc ==
    \/ \E K1 \in {process_create(BootedKern, "user", PRIORITY_NORMAL, "none")} :
       \E K2 \in {scheduler_add_process(K1, K1.ret)} :
         InitFrom([K2 EXCEPT !.ret = NULL, !.log = <<>>])
    \/ \E K1 \in {process_create(scheduler_init(BootKern), "user",
                                   PRIORITY_NORMAL, "none")} :
         InitFrom([K1 EXCEPT !.ret = NULL, !.log = <<>>])
NextIpc == Send \/ Receive \/ Yield \/ Block
SpecIpc == InitIpc /\ [][NextIpc]_vars

\* Waking: processes sleep, block, are sent messages, terminate, and the
\* timer runs.
InitWake == AfterKmain(0)
NextWake == Sleep \/ EarlyTick \/ Yield \/ Block \/ Notify \/ Kill
SpecWake == InitWake /\ [][NextWake]_vars

\* ------------------------------------------------ properties: messages
\* C11: whenever an operation moves a process from SLEEPING or BLOCKED to
\* READY (the timer expiry in scheduler_tick, ipc_send_message to a blocked
\* receiver, process_terminate waking a blocked parent), that process is
\* linked in a scheduler ready queue when the operation returns.
C11_WokenIsEnqueued ==
    [][\A p \in heap :
         (/\ op'.name \in {"handle_timer_irq", "ipc_send_message",
                           "process_terminate"}
          /\ pcb[p].state \in {PROCESS_SLEEPING, PROCESS_BLOCKED}
          /\ pcb'[p].state = PROCESS_READY)
            => (ClassicLinks(p) + RunqLinks(p))' >= 1]_vars

\* The payloads waiting in the mailbox of process d, head first, and the
\* mailbox's count.
RECURSIVE MsgChain(_, _)
MsgChain(m, fuel) ==
    IF m = NULL \/ fuel = 0 THEN <<>>
    ELSE <<msg[m].data>> \o MsgChain(msg[m].next, fuel - 1)

MailboxOf(d) ==
    IF pcb[d].message_queue = NULL THEN <<>>
    ELSE MsgChain(mq[pcb[d].message_queue].head, MaxSends + 1)

MailboxCount(d) ==
    IF pcb[d].message_queue = NULL THEN 0 ELSE mq[pcb[d].message_queue].count

\* The payloads recorded as sent to PID pid, and the receives recorded for
\* the process with that PID.
SentTo(h, pid) ==
    LET ToPid(e) == e[1] = "send" /\ e[2] = pid IN SelectSeq(h, ToPid)
ReceivedBy(h, pid) ==
    LET ByPid(e) == e[1] = "recv" /\ e[2] = pid IN SelectSeq(h, ByPid)

\* C12: a message sent with ipc_send_message(dst, data, n), n at most the
\* maximum size, is returned by the next ipc_receive_message of dst with a
\* buffer of m bytes as exactly the first min(n, m) bytes of data, with
\* return value min(n, m), and dst's mailbox count is zero again after the
\* pair.
C12_RoundTrip ==
    [][(/\ op'.name = "ipc_receive_message"
        /\ Len(SentTo(history, pcb[Executing].pid)) = 1
        /\ ReceivedBy(history, pcb[Executing].pid) = <<>>) =>
          LET data == SentTo(history, pcb[Executing].pid)[1][3]
              n == Len(data)
              m == op'.max_size
          IN /\ ret' = IF n < m THEN n ELSE m
             /\ buffer' = SubSeq(data, 1, IF n < m THEN n ELSE m)
             /\ MailboxCount(Executing)' = 0]_vars

\* Replays the recorded sends to PID pid and the recorded receives of the
\* process with that PID against a first-in first-out mailbox: every
\* receive returned the failure indicator on an empty mailbox and
\* otherwise the oldest payload waiting, cut to its buffer size.  The
\* result is the payloads left waiting, or the mark "diverged".
RECURSIVE MailReplay(_, _, _)
MailReplay(h, pid, box) ==
    IF h = <<>> THEN box
    ELSE LET e == Head(h) IN
    IF e[2] # pid THEN MailReplay(Tail(h), pid, box)
    ELSE IF e[1] = "send" THEN MailReplay(Tail(h), pid, Append(box, e[3]))
    ELSE IF box = <<>>
    THEN IF e[4] = -1 THEN MailReplay(Tail(h), pid, box) ELSE "diverged"
    ELSE LET n == IF Len(Head(box)) < e[3] THEN Len(Head(box)) ELSE e[3] IN
         IF e[4] = n /\ e[5] = SubSeq(Head(box), 1, n)
         THEN MailReplay(Tail(h), pid, Tail(box)) ELSE "diverged"

\* C13: for any interleaving of sends to one destination and receives by
\* that destination, messages are received in the order they were sent,
\* each exactly once, the mailbox count always equals the number of
\* messages sent and not yet received, and a receive on an empty mailbox
\* returns the failure indicator.
C13_MailboxFifo ==
    \A d \in heap :
        /\ MailReplay(history, pcb[d].pid, <<>>) = MailboxOf(d)
        /\ MailboxCount(d) = Len(MailboxOf(d))

\* C14: ipc_send_message fails when the payload is larger than the maximum,
\* when no process is registered under the destination PID, when there is
\* no current process and when an allocation fails; when it fails no
\* mailbox (its messages, its count), no process's state and no scheduler
\* queue differs from before the call.
C14_FailedSendNoEffect ==
    [][op'.name = "ipc_send_message" =>
         /\ (\/ Len(op'.data) > MAX_MESSAGE_SIZE
             \/ process_get_by_pid(Kern, op'.dest_pid) = NULL
             \/ current_process = NULL
             \/ op'.fail = "msg"
             \/ /\ op'.fail = "queue"
                /\ pcb[process_get_by_pid(Kern, op'.dest_pid)].message_queue
                     = NULL) => ret' = -1
         /\ ret' = -1 =>
              /\ pcb' = pcb
              /\ mq' = mq /\ mq_heap' = mq_heap /\ msg_heap' = msg_heap
              /\ \A m \in msg_heap : msg'[m] = msg[m]
              /\ ready_queue_head' = ready_queue_head
              /\ ready_queue_tail' = ready_queue_tail
              /\ priority_queues' = priority_queues
              /\ neural_runqueues' = neural_runqueues]_vars

\* A send failed for want of a mailbox block while a message was waiting
\* in another process's mailbox.
C14_SendFailedBesideMail ==
    /\ op.name = "ipc_send_message"
    /\ op.fail = "queue"
    /\ ret = -1
    /\ \E d \in heap : MailboxOf(d) # <<>>

QueuedOn(c) ==
    UNION {Range(Chain("next_in_queue", neural_runqueues[c].active_queue[b],
                       LinkFuel)) : b \in Buckets}

\* sched_add_process_to_runqueue of a process that is in no run queue, the
\* heap serving or refusing the statistics block.
RqAddFresh(cores, failures) ==
    /\ ~hung
    /\ \E p \in heap, c \in cores, fail \in failures :
         /\ \A d \in CpuIds : p \notin QueuedOn(d)
         /\ neural_runqueues[c].process_count < MaxQueued
         /\ Call(sched_add_process_to_runqueue(Kern, p, c, fail),
                 [name |-> "sched_add_process_to_runqueue", proc |-> p,
                  cpu_id |-> c, fail |-> fail])

\* sched_schedule_next on one of `cores`.
RqSchedule(cores) ==
    /\ ~hung
    /\ SumOver(heap, [p \in heap |-> pcb[p].stats.context_switches])
         < MaxSwitches
    /\ \E c \in cores :
         Call(sched_schedule_next(Kern, c),
              [name |-> "sched_schedule_next", cpu_id |-> c])

RqSetAlgorithm ==
    /\ ~hung
    /\ \E a \in AdvAlgorithms :
         Call(sched_set_algorithm(Kern, a),
              [name |-> "sched_set_algorithm", algorithm |-> a])

\* The accounting of one unit of runtime.
UpdateRuntime ==
    /\ ~hung
    /\ \E p \in heap :
         /\ pcb[p].sched_stats # NULL
         /\ pcb[p].stats.runtime < MaxRuntime
         /\ Call(sched_update_runtime_stats(Kern, p, 1),
                 [name |-> "sched_update_runtime_stats", proc |-> p,
                  runtime |-> 1])

\* A process is given a deadline: its statistics block's deadline field is
\* written (the kernel's own code leaves it 0).
SetDeadline ==
    /\ ~hung
    /\ \E p \in heap, d \in 1..MaxDeadline :
         /\ pcb[p].sched_stats # NULL
         /\ pcb[p].stats.deadline = 0
         /\ Call([Kern EXCEPT !.pcb[p].stats.deadline = d],
                 [name |-> "set_deadline", proc |-> p, deadline |-> d])

\* The per-core scheduler on the boot core: a booted kernel with a
\* real-time process and a second process of idle priority; processes are
\* put on the core, the core picks its next process under every
\* algorithm, and the timer runs.
AdvKern ==
    CHOOSE R \in {process_create(K1, "neural_net", PRIORITY_IDLE, "none") :
                    K1 \in {process_create(BootedKern, "rt", PRIORITY_REALTIME,
                                           "none")}} : TRUE
InitAdv == InitFrom([AdvKern EXCEPT !.ret = NULL, !.log = <<>>])
NextAdv ==
    \/ RqAddFresh({0}, BOOLEAN)
    \/ RqSchedule({0})
    \/ RqSetAlgorithm
    \/ EarlyTick
SpecAdv == InitAdv /\ [][NextAdv]_vars

\* The same without the timer, with runtime accounted and deadlines given.
NextAdvStats ==
    \/ RqAddFresh({0}, BOOLEAN)
    \/ RqSchedule({0})
    \/ RqSetAlgorithm
    \/ UpdateRuntime
    \/ SetDeadline
SpecAdvStats == InitAdv /\ [][NextAdvStats]_vars

\* The run queues under any use: any process is added to and removed from
\* any core, and the cores pick.
NextCount == RqAdd \/ RqRemove \/ RqSchedule(Cpus)
SpecCount == InitRunq /\ [][NextCount]_vars

\* --------------------------------- properties: the per-core run queues
\* C16: after any sequence of sched_add_process_to_runqueue,
\* sched_remove_process_from_runqueue and sched_schedule_next calls on any
\* cores, also ones that remove a process that is not queued on the core
\* or add one that is queued already, each core's process_count equals the
\* number of processes reachable from its six active buckets.
C16_CountIsQueued ==
    \A c \in Cpus : neural_runqueues[c].process_count = Cardinality(QueuedOn(c))

\* What pick_next_task answers for core c in the current state.
Picked(c) == pick_next_task(Kern, neural_runqueues[c])

\* C17 as stated: sched_schedule_next(c) returns the process chosen by the
\* active algorithm of core c, increments that process's context-switch
\* count by exactly one and sets its last-run timestamp to the current
\* time; when the algorithm selects no process it returns core c's idle
\* task and changes no process's statistics.
C17_ScheduleNextRecords ==
    [][\A c \in Cpus :
         (op'.name = "sched_schedule_next" /\ op'.cpu_id = c /\ ~hung') =>
           IF Picked(c) # NULL
           THEN /\ ret' = Picked(c)
                /\ pcb'[Picked(c)].stats.context_switches =
                     (pcb[Picked(c)].stats.context_switches + 1) % UINT32_MOD
                /\ pcb'[Picked(c)].stats.last_runtime = get_system_time(Kern)
           ELSE /\ ret' = neural_runqueues[c].idle_task
                /\ pcb' = pcb]_vars

\* C17 amended: sched_schedule_next(c) returns the process chosen by the
\* active algorithm of core c and makes it the core's current process; if
\* that process has a statistics block, its context-switch count grows by
\* exactly one and its last-run timestamp becomes the current time, and if
\* it has none (the block's allocation failed) nothing is recorded for it;
\* no other process changes.  When the algorithm selects no process the
\* call returns core c's idle task and changes no process's statistics.
C17_ScheduleNextRecordsIfStats ==
    [][\A c \in Cpus :
         (op'.name = "sched_schedule_next" /\ op'.cpu_id = c /\ ~hung') =>
           IF Picked(c) # NULL
           THEN /\ ret' = Picked(c)
                /\ neural_runqueues'[c].current = Picked(c)
                /\ \A p \in heap \ {Picked(c)} : pcb'[p] = pcb[p]
                /\ IF pcb[Picked(c)].sched_stats # NULL
                   THEN pcb'[Picked(c)] =
                          [pcb[Picked(c)] EXCEPT
                             !.stats.context_switches = (@ + 1) % UINT32_MOD,
                             !.stats.last_runtime = get_system_time(Kern)]
                   ELSE pcb'[Picked(c)] = pcb[Picked(c)]
           ELSE /\ ret' = neural_runqueues[c].idle_task
                /\ pcb' = pcb]_vars

\* A process was returned for the second time, after the timer had run
\* since its statistics were set up.
C17_ScheduledTwice ==
    /\ op.name = "sched_schedule_next"
    /\ ret # NULL
    /\ pcb[ret].sched_stats # NULL
    /\ pcb[ret].stats.context_switches = 2
    /\ pcb[ret].stats.last_runtime = timer_ticks
    /\ timer_ticks > 0

\* C18: with the advanced round-robin algorithm active,
\* sched_schedule_next(c) returns the head of the bucket holding the
\* highest-priority processes queued on core c: it never returns a process
\* while a process of strictly higher priority class (REALTIME highest,
\* IDLE lowest) is queued on that core.
C18_RoundRobinHighestFirst ==
    [][\A c \in Cpus :
         (/\ op'.name = "sched_schedule_next" /\ op'.cpu_id = c /\ ~hung'
          /\ neural_runqueues[c].algorithm = SCHED_ALGORITHM_ROUND_ROBIN
          /\ QueuedOn(c) # {}) =>
            /\ ret' \in QueuedOn(c)
            /\ \A q \in QueuedOn(c) : pcb[q].priority <= pcb[ret'].priority
            /\ ret' = neural_runqueues[c].active_queue[pcb[ret'].priority]]_vars

\* C19: with the fair algorithm active, a process sched_schedule_next(c)
\* returns is queued on core c and its virtual runtime is minimal among the
\* virtual runtimes of the processes queued on core c, whatever their
\* buckets and insertion order: of two queued processes with virtual
\* runtimes v1 < v2 the one with v2 is never returned.
C19_FairPicksMinVruntime ==
    [][\A c \in Cpus :
         (/\ op'.name = "sched_schedule_next" /\ op'.cpu_id = c /\ ~hung'
          /\ neural_runqueues[c].algorithm = SCHED_ALGORITHM_CFS
          /\ ret' # NULL) =>
            /\ ret' \in QueuedOn(c)
            /\ pcb[ret'].sched_stats # NULL
            /\ \A q \in QueuedOn(c) :
                 pcb[q].sched_stats # NULL =>
                   pcb[ret'].stats.vruntime <= pcb[q].stats.vruntime]_vars

\* Under the fair algorithm the process returned is not the head of the
\* first bucket in use, and a process in another bucket has a larger
\* virtual runtime.
C19_LaterBucketPicked ==
    /\ op.name = "sched_schedule_next"
    /\ neural_runqueues[op.cpu_id].algorithm = SCHED_ALGORITHM_CFS
    /\ ret # NULL
    /\ \E q \in QueuedOn(op.cpu_id) :
         /\ pcb[q].priority < pcb[ret].priority
         /\ pcb[q].sched_stats # NULL
         /\ pcb[q].stats.vruntime > pcb[ret].stats.vruntime
         /\ pcb[ret].stats.vruntime > 0

\* C20: with the real-time algorithm active, sched_schedule_next(c) returns
\* the process with the smallest non-zero deadline among the processes
\* queued in the two highest-priority buckets of core c (REALTIME and
\* HIGH), the idle task when there is none, and never a process from a
\* lower-priority bucket or one whose deadline is zero.
C20_RealtimeEarliestDeadline ==
    [][\A c \in Cpus :
         (/\ op'.name = "sched_schedule_next" /\ op'.cpu_id = c /\ ~hung'
          /\ neural_runqueues[c].algorithm = SCHED_ALGORITHM_REALTIME) =>
            LET rt == {q \in QueuedOn(c) :
                         /\ pcb[q].priority \in {PRIORITY_REALTIME,
                                                 PRIORITY_HIGH}
                         /\ pcb[q].sched_stats # NULL
                         /\ pcb[q].stats.deadline > 0}
            IN IF rt = {} THEN ret' = neural_runqueues[c].idle_task
               ELSE /\ ret' \in rt
                    /\ \A q \in rt :
                         pcb[ret'].stats.deadline <= pcb[q].stats.deadline]_vars

\* ------------------------------------------------- the neural score
\* The largest wait time and the neural classes the score is computed for
\* (class 6 is none of the enumeration's and takes the default weight).
MaxWait == 12
NeuralClasses == 0..6

\* The score of neural_pick_next_task computed for one process's figures.
Score ==
    /\ ~hung
    /\ \E w \in 0..MaxWait, class \in NeuralClasses, runtime \in 0..MaxRuntime :
         Call([Kern EXCEPT !.ret = neural_score(w, class, runtime)],
              [name |-> "neural_score", wait_time |-> w, class |-> class,
               runtime |-> runtime])

InitScore == InitFrom(BootedKern)
NextScore == Score
SpecScore == InitScore /\ [][NextScore]_vars

\* ------------------------------------- the run queues of several cores
\* The per-core operations recorded: which process was put on and taken
\* off which core.  A process is put on a core whose buckets do not hold
\* it and taken off a core whose buckets hold it.
MaxRqOps == 4

RqAddRec ==
    /\ ~hung
    /\ Len(history) < MaxRqOps
    /\ \E p \in heap, c \in Cpus :
         /\ p \notin QueuedOn(c)
         /\ Commit(sched_add_process_to_runqueue(Kern, p, c, FALSE),
                   [name |-> "sched_add_process_to_runqueue", proc |-> p,
                    cpu_id |-> c])
         /\ history' = Append(history, <<"rq_add", p, c>>)
         /\ UNCHANGED reaped

RqRemoveRec ==
    /\ ~hung
    /\ Len(history) < MaxRqOps
    /\ \E p \in heap, c \in Cpus :
         /\ p \in QueuedOn(c)
         /\ Commit(sched_remove_process_from_runqueue(Kern, p, c),
                   [name |-> "sched_remove_process_from_runqueue",
                    proc |-> p, cpu_id |-> c])
         /\ history' = Append(history, <<"rq_remove", p, c>>)
         /\ UNCHANGED reaped

InitCross == InitAdv
NextCross == RqAddRec \/ RqRemoveRec \/ RqSchedule(Cpus) \/ RqSetAlgorithm
SpecCross == InitCross /\ [][NextCross]_vars

\* ---------------------------------------------------- invalid handles
\* Core ids that are not the id of a detected core: the run queues beyond
\* the detected cores, and the first id beyond the arrays.
UndetectedIds == {c \in 0..MAX_CPUS : c >= neural_cpu_count}

\* The classic and the per-core add and remove given a null process.
NullProcCall ==
    /\ ~hung
    /\ \E c \in CpuIds :
         \/ Call(scheduler_add_process(Kern, NULL),
                 [name |-> "scheduler_add_process", proc |-> NULL])
         \/ Call(scheduler_remove_process(Kern, NULL),
                 [name |-> "scheduler_remove_process", proc |-> NULL])
         \/ Call(sched_add_process_to_runqueue(Kern, NULL, c, FALSE),
                 [name |-> "sched_add_process_to_runqueue", proc |-> NULL,
                  cpu_id |-> c])
         \/ Call(sched_remove_process_from_runqueue(Kern, NULL, c),
                 [name |-> "sched_remove_process_from_runqueue",
                  proc |-> NULL, cpu_id |-> c])

\* The per-core run-queue operations given the id of no detected core.
RqBadCore ==
    /\ ~hung
    /\ \E p \in heap, c \in UndetectedIds :
         \/ /\ c \in CpuIds => neural_runqueues[c].process_count < MaxQueued
            /\ Call(sched_add_process_to_runqueue(Kern, p, c, FALSE),
                    [name |-> "sched_add_process_to_runqueue", proc |-> p,
                     cpu_id |-> c])
         \/ /\ c \in CpuIds => neural_runqueues[c].process_count > 0
            /\ Call(sched_remove_process_from_runqueue(Kern, p, c),
                    [name |-> "sched_remove_process_from_runqueue",
                     proc |-> p, cpu_id |-> c])
         \/ /\ SumOver(heap, [q \in heap |-> pcb[q].stats.context_switches])
                 < MaxSwitches
            /\ Call(sched_schedule_next(Kern, c),
                    [name |-> "sched_schedule_next", cpu_id |-> c])

\* smp_get_cpu_by_id and smp_send_ipi given the id of no detected core.
SmpBadCore ==
    /\ ~hung
    /\ \E c \in UndetectedIds, vector \in {32}, delivered \in BOOLEAN :
         \/ Call(smp_get_cpu_by_id(Kern, c),
                 [name |-> "smp_get_cpu_by_id", cpu_id |-> c])
         \/ Call(smp_send_ipi(Kern, c, vector, delivered),
                 [name |-> "smp_send_ipi", cpu_id |-> c, vector |-> vector])

InitInvalid == InitAdv
NextInvalid ==
    \/ NullProcCall
    \/ RqBadCore
    \/ SmpBadCore
SpecInvalid == InitInvalid /\ [][NextInvalid]_vars

\* ------------------------------------------------------- core bring-up
\* What the hardware does when a core is started (see
\* start_application_processor).
Outcomes == {"started", "silent", "stuck"}

\* smp_init on every behaviour of the hardware.
SmpInit ==
    /\ ~hung
    /\ \E hw \in [ApIds -> Outcomes] :
         Call(smp_init(Kern, hw), [name |-> "smp_init", hw |-> hw])

\* An interrupt sent to a core.
SmpSendIpi ==
    /\ ~hung
    /\ \E c \in CpuIds, vector \in {32}, delivered \in BOOLEAN :
         Call(smp_send_ipi(Kern, c, vector, delivered),
              [name |-> "smp_send_ipi", cpu_id |-> c, vector |-> vector])

\* kmain before smp_init: process_init and scheduler_init have run.
InitSmp == InitFrom([scheduler_init(process_init(BootKern)) EXCEPT !.log = <<>>])
NextSmp == SmpInit \/ SmpSendIpi
SpecSmp == InitSmp /\ [][NextSmp]_vars

\* The classic scheduler switched to another algorithm after boot, and two
\* processes of different priorities created but not yet enqueued.
ModeKern(algorithm) ==
    CHOOSE R \in
      {[process_create(K2, "low", PRIORITY_LOW, "none")
           EXCEPT !.ret = NULL, !.log = <<>>] :
         K2 \in {process_create(K1, "high", PRIORITY_HIGH, "none") :
                   K1 \in {scheduler_set_algorithm(BootedKern, algorithm)}}} :
        TRUE

\* add, remove, next, yield and the timer tick, on any process.
NextClassic == Add \/ Remove \/ SchedNext \/ Yield \/ TimerIrq

InitPriority == InitFrom(ModeKern(SCHED_PRIORITY))
SpecPriority == InitPriority /\ [][NextClassic]_vars

\* Fair mode is explored over the first MaxFairTicks timer interrupts.
MaxFairTicks == 2

FairTick == timer_ticks < MaxFairTicks /\ TimerIrq

InitFair == InitFrom(ModeKern(SCHED_CFS))
NextFair == Add \/ Remove \/ SchedNext \/ Yield \/ FairTick
SpecFair == InitFair /\ [][NextFair]_vars

\* The score neural_pick_next_task computes for process p in the current
\* state.
ScoreOf(p) ==
    neural_score((get_system_time(Kern) - pcb[p].stats.last_runtime)
                    % UINT64_MOD,
                 pcb[p].stats.neural_class, pcb[p].stats.runtime)

\* C21: with the neural-adaptive algorithm active, sched_schedule_next(c)
\* returns the queued process with the maximum score
\* (wait_time * class_weight) / (runtime + 1); when several queued
\* processes share the maximum, all scores being zero included, it returns
\* the first of them in bucket scan order.
C21_NeuralPicksFirstMaxScore ==
    [][\A c \in Cpus :
         (/\ op'.name = "sched_schedule_next" /\ op'.cpu_id = c /\ ~hung'
          /\ neural_runqueues[c].algorithm = SCHED_ALGORITHM_NEURAL) =>
            LET scan == rq_walk(Kern, neural_runqueues[c], 0, 6)
                scored == {i \in DOMAIN scan : pcb[scan[i]].sched_stats # NULL}
            IN scored # {} =>
                 \E i \in scored :
                    /\ ret' = scan[i]
                    /\ \A j \in scored : ScoreOf(scan[j]) <= ScoreOf(scan[i])
                    /\ \A j \in scored :
                         j < i => ScoreOf(scan[j]) < ScoreOf(scan[i])]_vars

\* C22: for every class, every runtime and all wait times w1 <= w2, the
\* score (w1 * class_weight) / (runtime + 1) computed in uint64_t arithmetic
\* is not greater than the score for w2.
C22_ScoreMonotoneInWait ==
    op.name = "neural_score" =>
        \A w1 \in 0..op.wait_time :
            neural_score(w1, op.class, op.runtime) <= ret

\* The run queues of the detected cores have one algorithm.
SharedAlgorithm ==
    \A c, d \in CpuIds :
        (c < neural_cpu_count /\ d < neural_cpu_count) =>
            neural_runqueues[c].algorithm = neural_runqueues[d].algorithm

\* C23: all detected cores always share one algorithm; after
\* sched_set_algorithm(a) every detected core's run queue has algorithm a,
\* and the contents and order of every bucket, the process counts and the
\* bitmaps of all run queues are the same as before the call.
C23_SetAlgorithmKeepsQueues ==
    /\ []SharedAlgorithm
    /\ [][op'.name = "sched_set_algorithm" =>
            /\ \A c \in CpuIds :
                 /\ c < neural_cpu_count =>
                      neural_runqueues'[c].algorithm = op'.algorithm
                 /\ neural_runqueues'[c].active_queue =
                      neural_runqueues[c].active_queue
                 /\ neural_runqueues'[c].process_count =
                      neural_runqueues[c].process_count
                 /\ neural_runqueues'[c].queue_bitmap =
                      neural_runqueues[c].queue_bitmap
                 /\ \A b \in Buckets :
                      Chain("next_in_queue",
                            neural_runqueues[c].active_queue[b], LinkFuel)'
                        = Chain("next_in_queue",
                                neural_runqueues[c].active_queue[b], LinkFuel)
            /\ pcb' = pcb]_vars

\* The algorithm was switched away from the default with two processes
\* queued on the boot core; the run queue of a core that was not detected
\* keeps its own.
C23_SwitchedWithQueuedWork ==
    /\ op.name = "sched_set_algorithm"
    /\ op.algorithm = SCHED_ALGORITHM_CFS
    /\ \A c \in CpuIds :
         c < neural_cpu_count => neural_runqueues[c].algorithm = op.algorithm
    /\ Cardinality(QueuedOn(0)) = 2
    /\ neural_cpu_count < MAX_CPUS
    /\ neural_runqueues[MAX_CPUS - 1].algorithm = SCHED_ALGORITHM_ROUND_ROBIN

\* The processes added to core c and not since removed from it, by the
\* recorded operations h.
RECURSIVE AddedTo(_, _)
AddedTo(h, c) ==
    IF h = <<>> THEN {}
    ELSE LET e == h[Len(h)]
             before == AddedTo(SubSeq(h, 1, Len(h) - 1), c)
         IN IF e[3] # c THEN before
            ELSE IF e[1] = "rq_add" THEN before \cup {e[2]}
            ELSE before \ {e[2]}

\* C24: sched_add_process_to_runqueue, sched_remove_process_from_runqueue
\* and sched_schedule_next called for core c leave every other core's run
\* queue (buckets, count, bitmap, current reference) unchanged, and
\* sched_schedule_next(c) only ever returns a process that was added to
\* core c and not since removed, or core c's idle task.
C24_CoresIndependent ==
    [][\A c \in CpuIds :
         (/\ op'.name \in {"sched_add_process_to_runqueue",
                           "sched_remove_process_from_runqueue",
                           "sched_schedule_next"}
          /\ op'.cpu_id = c /\ ~hung') =>
            /\ \A d \in CpuIds \ {c} :
                 neural_runqueues'[d] = neural_runqueues[d]
            /\ op'.name = "sched_schedule_next" =>
                 ret' \in AddedTo(history, c)
                            \cup {neural_runqueues[c].idle_task}]_vars

\* The scheduler and SMP state an invalid call must leave alone.
SchedSmpState ==
    <<pcb, current_algorithm, ready_queue_head, ready_queue_tail,
      running_process, priority_queues, time_slice_counter,
      neural_runqueues, global_algorithm, neural_matrix, neural_cpu_count,
      active_neural_cores, smp_initialized>>

\* The last call was given a null process where it takes a process...
NullProcGiven(o) ==
    /\ o.name \in {"scheduler_add_process", "scheduler_remove_process",
                   "sched_add_process_to_runqueue",
                   "sched_remove_process_from_runqueue"}
    /\ o.proc = NULL

\* ... or a core id that is not the id of a detected core.
BadCoreGiven(o, cpu_count) ==
    /\ o.name \in {"sched_add_process_to_runqueue",
                   "sched_remove_process_from_runqueue",
                   "sched_schedule_next", "smp_get_cpu_by_id", "smp_send_ipi"}
    /\ o.cpu_id >= cpu_count

\* C25: the classic add/remove and the per-core add/remove given a null
\* process, and the per-core run-queue operations, smp_get_cpu_by_id and
\* smp_send_ipi given a core id that is not the id of a detected core,
\* change no scheduler or SMP state and return an error or empty result.
C25_InvalidHandleNoEffect ==
    [][(NullProcGiven(op') \/ BadCoreGiven(op', neural_cpu_count)) =>
          /\ UNCHANGED SchedSmpState
          /\ ~hung'
          /\ log' = <<>>
          /\ ret' \in {NULL, -1}]_vars

\* The cores whose status is ONLINE.
OnlineCores == {c \in CpuIds : neural_matrix[c].status = CPU_STATUS_ONLINE}

\* C26: after smp_init, for every combination of additional cores that
\* fail to start, core 0 has status ONLINE and the active-core count is at
\* least 1 and equals the number of cores whose status is ONLINE.
C26_BootCoreOnlineCountMatches ==
    smp_initialized = 1 =>
        /\ neural_matrix[0].status = CPU_STATUS_ONLINE
        /\ active_neural_cores >= 1
        /\ active_neural_cores = Cardinality(OnlineCores)

\* smp_init returned on hardware where one additional core came up and
\* another never ran.
C26_InitWithDeadCore ==
    /\ op.name = "smp_init"
    /\ ~hung
    /\ smp_initialized = 1
    /\ \E c, d \in 1..(neural_cpu_count - 1) :
         op.hw[c] = "silent" /\ op.hw[d] = "started"

\* The values written to core c's status field by the last call, in order.
RECURSIVE StatusWrites(_, _)
StatusWrites(l, c) ==
    IF l = <<>> THEN <<>>
    ELSE IF Head(l)[1] = "status" /\ Head(l)[2] = c
    THEN <<Head(l)[3]>> \o StatusWrites(Tail(l), c)
    ELSE StatusWrites(Tail(l), c)

\* C27: smp_init always completes: each additional core that starts passes
\* through OFFLINE, INITIALIZING, NEURAL_SYNC and ONLINE in that order, and
\* each additional core that fails to start, one for which the interrupt
\* delivery-status bit never clears included, ends with status ERROR while
\* bring-up continues with the remaining cores.
C27_BringUpCompletes ==
    op.name = "smp_init" =>
        /\ ~hung
        /\ smp_initialized = 1
        /\ \A c \in 1..(DETECTED_CORES - 1) :
             IF op.hw[c] = "started"
             THEN StatusWrites(log, c) =
                    <<CPU_STATUS_OFFLINE, CPU_STATUS_INITIALIZING,
                      CPU_STATUS_NEURAL_SYNC, CPU_STATUS_ONLINE>>
             ELSE neural_matrix[c].status = CPU_STATUS_ERROR

\* The processes linked in the five priority lists.
PrioQueued ==
    UNION {Range(Chain("next", priority_queues[i], LinkFuel)) : i \in PrioLevels}

\* C28: in classic priority mode scheduler_next never returns a process
\* while a process of strictly higher priority is queued, returns none only
\* when all five priority lists are empty, and the returned process is no
\* longer in any priority list.
C28_PriorityNextHighest ==
    [][(op'.name = "scheduler_next" /\ current_algorithm = SCHED_PRIORITY)
       => /\ ret' = NULL => PrioQueued = {}
          /\ ret' # NULL =>
               /\ \A q \in PrioQueued : pcb[q].priority <= pcb[ret'].priority
               /\ \A q \in heap : q = ret' => q \notin PrioQueued']_vars

\* The classic ready list as a walk from its head meets it.
ReadyList == Chain("next", ready_queue_head, LinkFuel)

ReadySorted ==
    \A i \in 1..(Len(ReadyList) - 1) :
        pcb[ReadyList[i]].cpu_time <= pcb[ReadyList[i + 1]].cpu_time

\* C29: in classic fair mode, after any sequence of add, remove, next, yield
\* and tick operations the ready list is ordered by accumulated CPU time
\* ascending, and scheduler_next returns a queued process whose accumulated
\* CPU time is minimal among all queued processes.
C29_FairListSorted ==
    /\ [](current_algorithm = SCHED_CFS => ReadySorted)
    /\ [][(op'.name = "scheduler_next" /\ current_algorithm = SCHED_CFS)
          => /\ ret' = NULL <=> ReadyList = <<>>
             /\ \A r \in heap : r = ret' =>
                  /\ r \in Range(ReadyList)
                  /\ \A q \in Range(ReadyList) :
                       pcb[r].cpu_time <= pcb[q].cpu_time]_vars

\* scheduler_yield ran in the last call.
YieldCalled == \E i \in DOMAIN log : log[i] = <<"serial", "yielding">>

\* C30: on every timer tick scheduler_preempt adds one to the time-slice
\* counter; scheduler_yield is called on exactly the ticks on which the
\* counter reaches the current process's time slice, and the counter is then
\* zero; between ticks the counter is below the time slice, so that no more
\* than time_slice ticks pass without a call of scheduler_yield.
C30_PreemptAtSliceEnd ==
    /\ [](~hung => time_slice_counter < pcb[current_process].time_slice)
    /\ [][(op'.name = "handle_timer_irq" /\ ~hung')
          => IF time_slice_counter + 1 >= pcb[current_process].time_slice
             THEN YieldCalled' /\ time_slice_counter' = 0
             ELSE ~YieldCalled' /\ time_slice_counter' = time_slice_counter + 1
         ]_vars

\* A tick on which the time slice ran out and scheduler_yield was called,
\* after a process had been switched to.
C30_SliceExpired ==
    /\ op.name = "handle_timer_irq" /\ YieldCalled
    /\ time_slice_counter = 0 /\ timer_ticks >= DEFAULT_TIME_SLICE
    /\ running_process # NULL
\* ------------------------------------------------------------------------
\* process_sleep with arguments below and at one timer period.
ShortMs == {0, 9, 10}

SleepBriefly ==
    /\ ~hung
    /\ \E ms \in ShortMs :
         Call(process_sleep(Kern, ms), [name |-> "process_sleep", ms |-> ms])

NextSleep == SleepBriefly \/ Sleep \/ TimerIrq \/ Yield
SpecSleep == InitTime /\ [][NextSleep]_vars

\* Every path on which a waiting process becomes READY: processes sleep
\* and block, the timer runs, messages are sent, processes terminate and
\* process_wake is called.
NextWakers == NextWake \/ Wake
SpecWakers == InitWake /\ [][NextWakers]_vars

\* ------------------------------------------------------------------------
\* scheduler_next in priority mode, statement by statement, with the timer
\* interrupt taken between its statements whenever interrupts are enabled.
NoInflight == \A c \in Cpus : inflight[c].pc = "none"

\* for (i ...) if (priority_queues[i]) { next = priority_queues[i];
NextScan ==
    /\ ~hung
    /\ NoInflight
    /\ current_algorithm = SCHED_PRIORITY
    /\ HighestQueued(Kern) # -1
    /\ \E i \in {HighestQueued(Kern)} :
         Call([Kern EXCEPT !.inflight[0] =
                         [pc |-> "next_taken", i |-> i,
                          next |-> priority_queues[i]]],
              [name |-> "scheduler_next", at |-> "next = priority_queues[i]"])

\* priority_queues[i] = next->next; next->next = NULL; break; ... return next;
NextTake ==
    /\ ~hung
    /\ inflight[0].pc = "next_taken"
    /\ Call([priority_take(Kern, inflight[0].i, inflight[0].next)
                EXCEPT !.inflight[0] = NoCall],
            [name |-> "scheduler_next", at |-> "return"])

\* A READY process that is linked nowhere is enqueued.
AddUnlinked ==
    /\ ~hung
    /\ \E p \in heap :
         /\ ClassicLinks(p) = 0
         /\ pcb[p].state = PROCESS_READY
         /\ Call(scheduler_add_process(Kern, p),
                 [name |-> "scheduler_add_process", proc |-> p])

\* The timer interrupt, taken when the interrupt flag is set.
TimerInterrupt == interrupts_on /\ EarlyTick

\* Priority mode after boot, with one more process of the idle priority.
InitIntr ==
    \E K1 \in {scheduler_set_algorithm(BootedKern, SCHED_PRIORITY)} :
    \E K2 \in {process_create(K1, "worker", PRIORITY_IDLE, "none")} :
      InitFrom([K2 EXCEPT !.ret = NULL, !.log = <<>>])
NextIntr ==
    \/ NoInflight /\ AddUnlinked
    \/ NoInflight /\ SleepBriefly
    \/ NoInflight /\ Yield
    \/ NextScan
    \/ NextTake
    \/ TimerInterrupt
SpecIntr == InitIntr /\ [][NextIntr]_vars

\* ------------------------------------------------------------------------
\* Two cores executing sched_add_process_to_runqueue and
\* sched_remove_process_from_runqueue on the run queue of core SharedRq,
\* one read or write at a time.
SharedRq == 0
MaxCalls == 3

\* rq->active_queue[priority] = proc, left out.
rq_store_head_skipped(K, proc, cpu_id) == K

\* rq->active_queue[priority] = proc
rq_store_head(K, proc, cpu_id) ==
    [K EXCEPT !.neural_runqueues[cpu_id].active_queue[bucket_of(K, proc)] = proc]

\* The unlinking of sched_remove_process_from_runqueue: the head is moved
\* or the predecessor is searched and its link is moved.
rq_unlink(K, proc, cpu_id) ==
    LET priority == bucket_of(K, proc)
        rq == K.neural_runqueues[cpu_id]
    IN IF rq.active_queue[priority] = proc
       THEN [K EXCEPT !.neural_runqueues[cpu_id].active_queue[priority]
                          = K.pcb[proc].next_in_queue]
       ELSE LET prev == rq_find_prev(K, rq.active_queue[priority], proc,
                                     WalkFuel)
            IN IF prev = -1 THEN [K EXCEPT !.hung = TRUE]
               ELSE IF prev # NULL
               THEN [K EXCEPT !.pcb[prev].next_in_queue =
                                  K.pcb[proc].next_in_queue]
               ELSE K

\* The next read or write of the call that core c is executing.
runqueue_step(K, c) ==
    LET f == K.inflight[c]
        proc == f.proc
        priority == bucket_of(K, proc)
        rq == K.neural_runqueues[SharedRq]
        at(pc) == [f EXCEPT !.pc = pc]
    IN CASE f.pc = "add_link" ->
              [K EXCEPT !.pcb[proc].next_in_queue = rq.active_queue[priority],
                        !.inflight[c] = at("add_head")]
         [] f.pc = "add_head" ->
              [rq_store_head(K, proc, SharedRq)
                  EXCEPT !.inflight[c] = at("add_count_read")]
         [] f.pc = "add_count_read" ->
              [K EXCEPT !.inflight[c] =
                          [at("add_count_write") EXCEPT !.tmp = rq.process_count]]
         [] f.pc = "add_count_write" ->
              [K EXCEPT !.neural_runqueues[SharedRq].process_count =
                            (f.tmp + 1) % UINT32_MOD,
                        !.inflight[c] = at("add_rest")]
         [] f.pc = "add_rest" ->
              LET K1 == [K EXCEPT !.neural_runqueues[SharedRq].queue_bitmap =
                                      @ \cup {priority},
                                  !.inflight[c] = NoCall]
              IN IF K.pcb[proc].sched_stats # NULL THEN K1
                 ELSE sched_init_process_stats(
                          [K1 EXCEPT !.pcb[proc].sched_stats = proc], proc)
         [] f.pc = "remove_unlink" ->
              [rq_unlink(K, proc, SharedRq)
                  EXCEPT !.inflight[c] = at("remove_clear")]
         [] f.pc = "remove_clear" ->
              [K EXCEPT !.pcb[proc].next_in_queue = NULL,
                        !.inflight[c] = at("remove_count_read")]
         [] f.pc = "remove_count_read" ->
              [K EXCEPT !.inflight[c] =
                          [at("remove_count_write") EXCEPT !.tmp = rq.process_count]]
         [] f.pc = "remove_count_write" ->
              [K EXCEPT !.neural_runqueues[SharedRq].process_count =
                            (f.tmp - 1) % UINT32_MOD,
                        !.inflight[c] = at("remove_bitmap")]
         [] f.pc = "remove_bitmap" ->
              IF rq.active_queue[priority] = NULL
              THEN [K EXCEPT !.neural_runqueues[SharedRq].queue_bitmap =
                                 @ \ {priority},
                             !.inflight[c] = NoCall]
              ELSE [K EXCEPT !.inflight[c] = NoCall]

\* The processes that calls in flight are given.
InflightProcs == {inflight[c].proc : c \in {d \in Cpus : inflight[d].pc # "none"}}

\* Core c enters sched_add_process_to_runqueue(p, SharedRq) for a process
\* that is in no run queue, or sched_remove_process_from_runqueue(p,
\* SharedRq) for one that is linked; the call is recorded with whether
\* another core's call is in flight.
CoreEnters ==
    /\ ~hung
    /\ Len(history) < MaxCalls
    /\ \E c \in Cpus, p \in heap \ InflightProcs, kind \in {"add", "remove"} :
         /\ inflight[c].pc = "none"
         /\ IF kind = "add" THEN \A d \in CpuIds : p \notin QueuedOn(d)
            ELSE p \in QueuedOn(SharedRq)
         /\ Commit([Kern EXCEPT !.inflight[c] =
                        [pc |-> IF kind = "add" THEN "add_link"
                                ELSE "remove_unlink",
                         proc |-> p, tmp |-> 0]],
                   [name |-> "enter", core |-> c, kind |-> kind, proc |-> p])
         /\ history' = Append(history, <<kind, p, ~NoInflight>>)
         /\ UNCHANGED reaped

\* Core c executes the next read or write of its call.
CoreSteps ==
    /\ ~hung
    /\ \E c \in Cpus :
         /\ inflight[c].pc # "none"
         /\ Call(runqueue_step(Kern, c),
                 [name |-> "step", core |-> c, at |-> inflight[c].pc])

NextRace == CoreEnters \/ CoreSteps
SpecRace == InitAdv /\ [][NextRace]_vars

\* ------------------------------------------------------------------------
\* The classic scheduler with the algorithm switched at run time: processes
\* are created, enqueued once and handed out, in any of the three modes.
NextSwitch == Create \/ AddUnlinked \/ SchedNext \/ SetAlgorithm
SpecSwitch == Init /\ [][NextSwitch]_vars

\* ------------------------------------------------------------------------
\* Parents that are destroyed before their children terminate.
ProcessStates ==
    {PROCESS_CREATED, PROCESS_READY, PROCESS_RUNNING, PROCESS_BLOCKED,
     PROCESS_SLEEPING, PROCESS_ZOMBIE}

\* proc->parent points to a control block that kfree has released.
FreedParent(p) == pcb[p].parent # NULL /\ pcb[p].parent \notin heap

\* process_terminate(p), p's parent being NULL or allocated.
TerminateOwned ==
    /\ ~hung
    /\ \E p \in heap :
         /\ ~FreedParent(p)
         /\ Call(process_terminate(Kern, p),
                 [name |-> "process_terminate", proc |-> p])

\* process_terminate(p), p's parent released: proc->parent->state reads
\* memory that the allocator owns, and finds any value there.
TerminateOrphan ==
    /\ ~hung
    /\ \E p \in heap, seen \in ProcessStates :
         /\ FreedParent(p)
         /\ Call(process_terminate(
                     [Kern EXCEPT !.pcb[pcb[p].parent].state = seen], p),
                 [name |-> "process_terminate", proc |-> p,
                  freed |-> pcb[p].parent, seen |-> seen])

NextOrphan == Create \/ ProcessDestroy \/ TerminateOwned \/ TerminateOrphan
SpecOrphan == InitProc /\ [][NextOrphan]_vars
\* ------------------------------------------------------------------------
\* C31: every process that process_sleep puts in state SLEEPING carries a
\* sleep_until strictly greater than the tick at which it entered SLEEPING,
\* for every millisecond argument.
C31_SleepUntilAfterEntry ==
    [][op'.name = "process_sleep"
       => \A p \in heap :
            (pcb[p].state # PROCESS_SLEEPING /\ pcb'[p].state = PROCESS_SLEEPING)
            => pcb'[p].sleep_until > timer_ticks]_vars

WaitStates == {PROCESS_BLOCKED, PROCESS_SLEEPING}

\* p was woken by the timer expiry of scheduler_tick.
TimerWake(p) ==
    op'.name = "handle_timer_irq" /\ pcb[p].state = PROCESS_SLEEPING

\* p was woken by ipc_send_message to it while BLOCKED.
SendWake(p) ==
    /\ op'.name = "ipc_send_message"
    /\ pcb[p].state = PROCESS_BLOCKED
    /\ process_table[op'.dest_pid] = p

\* C32: the only operations that change another process's state from
\* BLOCKED or SLEEPING to READY are scheduler_tick's timer-expiry wake of a
\* SLEEPING process and ipc_send_message to a BLOCKED receiver.
C32_OnlyTimerAndSendWake ==
    [][\A p \in heap :
         (pcb[p].state \in WaitStates /\ pcb'[p].state = PROCESS_READY
          /\ p # Executing)
           => TimerWake(p) \/ SendWake(p)]_vars

\* C32, amended: a process's state changes from BLOCKED or SLEEPING to READY
\* only by scheduler_tick's timer-expiry wake of a SLEEPING process,
\* ipc_send_message to a BLOCKED receiver, process_terminate of a child of a
\* BLOCKED parent, or process_wake called on a SLEEPING process.
C32_FourWakePaths ==
    [][\A p \in heap :
         (pcb[p].state \in WaitStates /\ pcb'[p].state = PROCESS_READY)
           => \/ TimerWake(p)
              \/ SendWake(p)
              \/ /\ op'.name = "process_terminate"
                 /\ pcb[p].state = PROCESS_BLOCKED
                 /\ pcb[op'.proc].parent = p
              \/ /\ op'.name = "process_wake"
                 /\ pcb[p].state = PROCESS_SLEEPING
                 /\ op'.proc = p]_vars

\* A child terminated while its parent was BLOCKED: the parent is READY.
C32_ParentWokenByExit ==
    /\ op.name = "process_terminate"
    /\ \E p \in heap : woken = {p} /\ pcb[op.proc].parent = p
                       /\ pcb[p].state = PROCESS_READY

\* The functions that wrote queue state with interrupts enabled in the
\* last call.
UnprotectedWrites == {log[i][2] : i \in {j \in DOMAIN log : log[j][1] = "unprotected"}}

\* C33: every write to the ready list's head or tail, to a priority list or
\* to a process's queue links happens while local interrupts are disabled,
\* also inside the timer interrupt handler, and a scheduler_next that a
\* timer tick interrupts loses no queued process: every process that was
\* linked before scheduler_next returned, other than the one it returns, is
\* still linked.
C33_QueueWritesProtected ==
    /\ [](UnprotectedWrites = {})
    /\ [][(op'.name = "scheduler_next" /\ op'.at = "return")
          => \A p \in heap :
               (ClassicLinks(p) >= 1 /\ p # ret') => ClassicLinks(p)' >= 1]_vars

\* Some recorded call began while another core's call was in flight.
Overlapped == \E i \in DOMAIN history : history[i][3]

\* The processes the recorded calls leave on the run queue when each runs
\* from beginning to end.
RECURSIVE LeftQueued(_, _)
LeftQueued(h, S) ==
    IF h = <<>> THEN S
    ELSE LeftQueued(Tail(h), IF Head(h)[1] = "add" THEN S \cup {Head(h)[2]}
                             ELSE S \ {Head(h)[2]})

RqLinked(p) ==
    SumOver(Buckets,
            [b \in Buckets |->
               TimesIn(Chain("next_in_queue",
                             neural_runqueues[SharedRq].active_queue[b],
                             LinkFuel), p)])

\* C34: local interrupt disabling does not protect a run queue from another
\* core.  Calls of sched_add_process_to_runqueue and
\* sched_remove_process_from_runqueue on one run queue that do not overlap
\* leave exactly the added processes linked, once each, and process_count
\* equal to their number; calls by two cores that overlap, interleaved at
\* the level of single reads and writes, reach a state (C34_AddedProcessLost)
\* in which an added process is not reachable from its bucket, and one in
\* which process_count differs from the number of linked entries.
C34_SequentialCallsConsistent ==
    (NoInflight /\ ~Overlapped /\ ~hung)
      => /\ QueuedOn(SharedRq) = LeftQueued(history, {})
         /\ \A p \in heap : RqLinked(p) <= 1
         /\ neural_runqueues[SharedRq].process_count
              = Cardinality(QueuedOn(SharedRq))

\* Two overlapping adds have returned, and one of the added processes is
\* not reachable from its bucket.
C34_AddedProcessLost ==
    /\ NoInflight /\ Overlapped /\ ~hung
    /\ \A i \in DOMAIN history : history[i][1] = "add"
    /\ \E p \in LeftQueued(history, {}) : p \notin QueuedOn(SharedRq)

\* C35: scheduler_remove_process, and so process_terminate, applied in
\* round-robin or fair mode to a process that is not linked in the ready
\* list leaves the ready list's head, tail and members unchanged.
C35_RemoveUnlinkedKeepsList ==
    [][(/\ op'.name \in {"scheduler_remove_process", "process_terminate"}
        /\ current_algorithm \in {SCHED_ROUND_ROBIN, SCHED_CFS}
        /\ ClassicLinks(op'.proc) = 0)
       => /\ ready_queue_head' = ready_queue_head
          /\ ready_queue_tail' = ready_queue_tail
          /\ ReadyList' = ReadyList]_vars

\* C36: after context_switch(from, to) has transferred control to `to`,
\* process_get_current() returns `to`.
C36_CurrentFollowsSwitch ==
    [][(switches' # <<>> /\ ~hung')
       => current_process' = switches'[Len(switches')][2]]_vars

\* C37: in every reachable state of the classic scheduler in round-robin or
\* fair mode the ready list is a well-formed doubly linked list: following
\* next from the head visits each member once and ends at the tail, each
\* member's prev is its predecessor, the head is empty exactly when the tail
\* is, and every member is READY.
C37_ReadyListWellFormed ==
    (current_algorithm \in {SCHED_ROUND_ROBIN, SCHED_CFS} /\ ~hung)
      => /\ Len(ReadyList) = Cardinality(Range(ReadyList))
         /\ (ready_queue_head = NULL) <=> (ready_queue_tail = NULL)
         /\ ReadyList # <<>> =>
              /\ ReadyList[Len(ReadyList)] = ready_queue_tail
              /\ pcb[ReadyList[1]].prev = NULL
         /\ \A i \in 1..(Len(ReadyList) - 1) :
              pcb[ReadyList[i + 1]].prev = ReadyList[i]
         /\ \A p \in Range(ReadyList) : pcb[p].state = PROCESS_READY

\* C38: scheduler_set_algorithm keeps every process that was queued in the
\* classic scheduler before the call schedulable after it: a process linked
\* in the ready list or in a priority list before the call is still linked
\* in one after it, where a later scheduler_next finds it.
C38_SetAlgorithmKeepsQueued ==
    [][op'.name = "scheduler_set_algorithm"
       => \A p \in heap : ClassicLinks(p) >= 1 => ClassicLinks(p)' >= 1]_vars

\* C39: under the advanced round-robin, fair, neural-adaptive and cyberpunk
\* algorithms, sched_schedule_next(c) returns a process queued on core c
\* whenever at least one process is queued there; the idle task is returned
\* only when the run queue holds no process.
C39_IdleOnlyWhenEmpty ==
    [][\A c \in Cpus :
         (/\ op'.name = "sched_schedule_next"
          /\ op'.cpu_id = c
          /\ neural_runqueues[c].algorithm
               \in {SCHED_ALGORITHM_ROUND_ROBIN, SCHED_ALGORITHM_CFS,
                    SCHED_ALGORITHM_NEURAL, SCHED_ALGORITHM_CYBERPUNK}
          /\ QueuedOn(c) # {})
         => ret' \in QueuedOn(c)]_vars

\* C40: no live process holds a parent reference to a process that has been
\* destroyed, so process_terminate of a process never reads or writes the
\* freed control block of its parent.
C40_NoFreedParent ==
    /\ [](\A p \in heap : ~FreedParent(p))
    /\ [][\A p \in heap :
            (op'.name = "process_terminate" /\ op'.proc = p)
              => ~FreedParent(p)]_vars
====
